---- MODULE Spec2Model ----
(***************************************************************************)
(* A model of certbot_nginx/parser_obj.py: the document-object model of    *)
(* nginx configuration files (Sentence, Include, Bloc, ServerBloc,         *)
(* Statements), its hook dispatch, include resolution through the shared   *)
(* parsed_files cache, the mutation protocol of Statements / ServerBloc    *)
(* and the two dump modes.                                                 *)
(*                                                                         *)
(* Representation.                                                         *)
(*   - A Python string is a sequence of characters.  A run of letters that *)
(*     the code never looks into ("listen", "80") is written as one        *)
(*     character; blanks, newlines and quotes are characters of their own, *)
(*     so isspace, strip, rfind, join and split are computed, not assumed. *)
(*   - A raw node is [t |-> "str", v |-> string] or                        *)
(*     [t |-> "list", v |-> sequence of raw nodes].                        *)
(*   - A parsed node is a record with a kind field.  The Statements of a   *)
(*     file is an object of the heap (heap[id]); every other node is held  *)
(*     by value inside its owner; an Include holds (filename, id) pairs.   *)
(***************************************************************************)
EXTENDS Integers, Sequences, FiniteSets, TLC

VARIABLES
    disk,          \* filename -> what the tokenizer yields for the file
    heap,          \* id -> the Statements object of a loaded file
    parsed_files,  \* the context's shared cache: filename -> id
    phase,         \* "init" before the root file is loaded, then "ready"
    last,          \* the last call: its arguments, outcome and pre-state
    nops           \* the number of mutating calls made so far

vars == <<disk, heap, parsed_files, phase, last, nops>>

-----------------------------------------------------------------------------
(* Strings *)

WhiteChars == {" ", "\n", "\t"}
QuoteChars == {"\"", "'"}

\* str.isspace(): non-empty and only whitespace characters
isspace(word) == Len(word) > 0 /\ \A i \in 1..Len(word) : word[i] \in WhiteChars

RECURSIVE lstrip(_)
lstrip(word) ==
    IF Len(word) > 0 /\ word[1] \in QuoteChars THEN lstrip(Tail(word)) ELSE word

RECURSIVE rstrip(_)
rstrip(word) ==
    IF Len(word) > 0 /\ word[Len(word)] \in QuoteChars
    THEN rstrip(SubSeq(word, 1, Len(word) - 1))
    ELSE word

\* word.strip('"\'')
strip(word) == rstrip(lstrip(word))

\* word.rfind('\n'), 1-based; 0 when there is none (Python: -1)
rfind_nl(word) ==
    LET S == {i \in 1..Len(word) : word[i] = "\n"}
    IN  IF S = {} THEN 0 ELSE CHOOSE i \in S : \A j \in S : j <= i

spaces_after_newline(word) ==
    IF ~isspace(word) THEN <<>>
    ELSE SubSeq(word, rfind_nl(word) + 1, Len(word))

RECURSIVE Repeat(_, _)
Repeat(c, n) == IF n = 0 THEN <<>> ELSE <<c>> \o Repeat(c, n - 1)

RECURSIVE JoinWith(_, _)
\* sep.join(strs)
JoinWith(sep, strs) ==
    IF Len(strs) = 0 THEN <<>>
    ELSE IF Len(strs) = 1 THEN strs[1]
    ELSE strs[1] \o sep \o JoinWith(sep, Tail(strs))

RECURSIVE SplitOn(_, _)
\* s.split(c) for a one-character separator: always at least one part
SplitOn(c, s) ==
    LET S == {i \in 1..Len(s) : s[i] = c}
    IN  IF S = {} THEN <<s>>
        ELSE LET k == CHOOSE i \in S : \A j \in S : i <= j
             IN  <<SubSeq(s, 1, k - 1)>> \o SplitOn(c, SubSeq(s, k + 1, Len(s)))

Str(s) == <<s>>

\* list membership: x in list_
InSeq(x, list_) == \E i \in 1..Len(list_) : list_[i] = x

RECURSIVE MapSeqStrip(_)
MapSeqStrip(ws) == IF ws = <<>> THEN <<>> ELSE <<strip(Head(ws))>> \o MapSeqStrip(Tail(ws))

NotSpace(word) == ~isspace(word)

\* Sentence.words: the quote-stripped words of _data, whitespace tokens left out
words_of(data) == MapSeqStrip(SelectSeq(data, NotSpace))

REPEATABLE_DIRECTIVES == {Str("server_name"), Str("listen"), Str("include"), Str("rewrite")}
COMMENT == <<" ", "managed", " ", "by", " ", "Certbot">>
COMMENT_BLOCK == <<Str("#"), COMMENT>>

-----------------------------------------------------------------------------
(* Raw nodes *)

RStr(s) == [t |-> "str", v |-> s]
RList(l) == [t |-> "list", v |-> l]

isstr(raw) == raw.t = "str"
islist(raw) == raw.t = "list"

RECURSIVE RawStrs(_)
\* a sequence of strings as a sequence of raw string nodes
RawStrs(ss) == IF ss = <<>> THEN <<>> ELSE <<RStr(Head(ss))>> \o RawStrs(Tail(ss))

RECURSIVE Unraw(_)
\* the strings of a sequence of raw string nodes
Unraw(rs) == IF rs = <<>> THEN <<>> ELSE <<Head(rs).v>> \o Unraw(Tail(rs))

\* a raw sentence from its tokens
RSent(ss) == RList(RawStrs(ss))

_is_bloc(list_) == islist(list_) /\ Len(list_.v) = 2 /\ islist(list_.v[2])

_is_sentence(list_) == islist(list_) /\ \A i \in 1..Len(list_.v) : isstr(list_.v[i])

-----------------------------------------------------------------------------
(* Parsed nodes *)

NoneNode == [kind |-> "None"]

SentenceNode(data) == [kind |-> "Sentence", data |-> data]
IncludeNode(data, parsed) == [kind |-> "Include", data |-> data, parsed |-> parsed]
StatementsNode(data, trailing) ==
    [kind |-> "Statements", data |-> data, trailing |-> trailing]
BlocNode(names, contents) == [kind |-> "Bloc", names |-> names, contents |-> contents]
ServerBlocNode(names, contents, vhost) ==
    [kind |-> "ServerBloc", names |-> names, contents |-> contents, vhost |-> vhost]

\* isinstance(elem, Sentence): Include is a subclass of Sentence
IsSentence(elem) == elem.kind \in {"Sentence", "Include"}
\* isinstance(elem, Bloc): ServerBloc is a subclass of Bloc
IsBloc(elem) == elem.kind \in {"Bloc", "ServerBloc"}
IsInclude(elem) == elem.kind = "Include"

\* Sentence.words
words(sentence) == words_of(sentence.data)

\* Sentence.is_comment
is_comment(sentence) ==
    IF Len(words(sentence)) = 0 THEN FALSE ELSE words(sentence)[1] = Str("#")

is_certbot_comment(parsed_obj) ==
    IF ~IsSentence(parsed_obj) THEN FALSE
    ELSE \A k \in 1..Len(COMMENT_BLOCK) : InSeq(COMMENT_BLOCK[k], words(parsed_obj))

PrecedingSpaces == 4

\* certbot_comment(context): Sentence.parse of [' ' * 4] + COMMENT_BLOCK
certbot_comment == SentenceNode(<<Repeat(" ", PrecedingSpaces)>> \o COMMENT_BLOCK)

RECURSIVE _space_list_from(_, _)
\* the tail of _space_list's result that starts at the i-th token
_space_list_from(list_, i) ==
    IF i > Len(list_) THEN <<>>
    ELSE (IF i > 1 /\ ~isspace(list_[i]) /\ ~isspace(list_[i - 1])
          THEN <<Str(" "), list_[i]>> ELSE <<list_[i]>>)
         \o _space_list_from(list_, i + 1)

_space_list(list_) == _space_list_from(list_, 1)

-----------------------------------------------------------------------------
(* Expanded iteration and queries; h is the heap the Include ids refer to *)

RECURSIVE iterate_expanded(_, _)
RECURSIVE ExpandParsed(_, _)
RECURSIVE ExpandData(_, _)

\* the expanded children of the documents an Include resolves to, in dict order
ExpandParsed(parsed, h) ==
    IF parsed = <<>> THEN <<>>
    ELSE iterate_expanded(h[Head(parsed).id], h) \o ExpandParsed(Tail(parsed), h)

\* a plausible slip of iterate_expanded: the Include node is yielded before the
\* children of its documents
ExpandData_include_first(data, h) ==
    IF data = <<>> THEN <<>>
    ELSE (IF IsInclude(Head(data))
          THEN <<Head(data)>> \o ExpandParsed(Head(data).parsed, h)
          ELSE <<Head(data)>>)
         \o ExpandData(Tail(data), h)

ExpandData(data, h) ==
    IF data = <<>> THEN <<>>
    ELSE (IF IsInclude(Head(data))
          THEN ExpandParsed(Head(data).parsed, h) \o <<Head(data)>>
          ELSE <<Head(data)>>)
         \o ExpandData(Tail(data), h)

iterate_expanded(statements, h) == ExpandData(statements.data, h)

\* sentence[0] raises IndexError on a Sentence without words
NoWords(elem) == IsSentence(elem) /\ Len(words(elem)) = 0

\* isinstance(elem, Sentence) and sentence[0] == name
IsNamed(elem, name) ==
    IsSentence(elem) /\ Len(words(elem)) > 0 /\ words(elem)[1] = name

RECURSIVE SelectNamed(_, _)
SelectNamed(ex, name) ==
    IF ex = <<>> THEN <<>>
    ELSE (IF IsNamed(Head(ex), name) THEN <<Head(ex)>> ELSE <<>>)
         \o SelectNamed(Tail(ex), name)

\* the filter of get_directives over an expanded sequence, consumed to its end
directives_in(ex, name) ==
    IF \E i \in 1..Len(ex) : NoWords(ex[i])
    THEN [err |-> "IndexError", found |-> <<>>]
    ELSE [err |-> "", found |-> SelectNamed(ex, name)]

\* get_directives(name): the Sentences whose first word is name, or IndexError
\* when some expanded Sentence has no word
get_directives(statements, name, h) ==
    directives_in(iterate_expanded(statements, h), name)

\* itertools.chain of two query results, consumed to the end
chain(r1, r2) ==
    IF r1.err # "" THEN r1
    ELSE IF r2.err # "" THEN r2
    ELSE [err |-> "", found |-> r1.found \o r2.found]

\* a query that stays at the level it was asked at
get_thing_recursive_shallow(statements, name, h) ==
    directives_in(iterate_expanded(statements, h), name)

RECURSIVE get_thing_recursive(_, _, _)
RECURSIVE recurse_blocs(_, _, _, _)
\* the loop of get_thing_recursive over get_type(Bloc): results is chained with
\* what each Bloc's contents give
recurse_blocs(results, ex, name, h) ==
    IF ex = <<>> THEN results
    ELSE recurse_blocs(
            IF IsBloc(Head(ex))
            THEN chain(results, get_thing_recursive(Head(ex).contents, name, h))
            ELSE results,
            Tail(ex), name, h)

\* get_thing_recursive(match_func) for the match_func of get_directives: the
\* Sentences named name here and in the contents of every Bloc
get_thing_recursive(statements, name, h) ==
    recurse_blocs(directives_in(iterate_expanded(statements, h), name),
                  iterate_expanded(statements, h), name, h)

\* Sentence.matches_list(list_): "True", "False" or "IndexError"; list_ is a
\* sequence of raw nodes, and a word equals a raw node that is that string
RECURSIVE matches_from(_, _, _)
matches_from(ws, list_, i) ==
    IF i > Len(ws) THEN "True"
    ELSE IF ws[i] = Str("#") /\ i - 1 = Len(list_) THEN "True"
    ELSE IF i > Len(list_) THEN "IndexError"
    ELSE IF ~(isstr(list_[i]) /\ list_[i].v = ws[i]) THEN "False"
    ELSE matches_from(ws, list_, i + 1)

matches_list(sentence, list_) == matches_from(words(sentence), list_, 1)

\* the loop of contains_exact_directive from the i-th expanded element on
RECURSIVE contains_from(_, _, _)
contains_from(ex, statement, i) ==
    IF i > Len(ex) THEN "False"
    ELSE IF ~IsSentence(ex[i]) THEN contains_from(ex, statement, i + 1)
    ELSE IF matches_list(ex[i], statement) = "False"
    THEN contains_from(ex, statement, i + 1)
    ELSE matches_list(ex[i], statement)

\* Statements.contains_exact_directive(statement): "True", "False" or "IndexError"
contains_exact_directive(statements, statement, h) ==
    contains_from(iterate_expanded(statements, h), statement, 1)

-----------------------------------------------------------------------------
(* The virtual-host view *)

AddrNone == [isnone |-> TRUE, addr |-> <<>>, ssl |-> FALSE, default |-> FALSE]

\* the Addr built from the blank-separated parts of the listen arguments
Addr_fromparts(parts) ==
    IF Len(parts[1]) > 0 /\ parts[1][1] = "unix:" THEN AddrNone
    ELSE [isnone |-> FALSE, addr |-> parts[1],
          ssl |-> InSeq(Str("ssl"), Tail(parts)),
          default |-> InSeq(Str("default_server"), Tail(parts))]

\* obj.Addr.fromstring: the first blank-separated part is the address, a unix:
\* socket gives None, the other parts are options
Addr_fromstring(str_addr) == Addr_fromparts(SplitOn(" ", str_addr))

SeqRange(s) == {s[i] : i \in 1..Len(s)}

EmptyVhost == [addrs |-> {}, names |-> {}, ssl |-> FALSE]

\* the first loop of _update_vhost: the addresses that parse
listen_addrs(listens) ==
    {a \in {Addr_fromstring(JoinWith(Str(" "), Tail(words(listens[i])))) :
                i \in 1..Len(listens)} : ~a.isnone}

\* the second loop: server_names.update(name[1:])
server_names_of(names) ==
    UNION {SeqRange(Tail(words(names[i]))) : i \in 1..Len(names)}

\* the third loop: ssl.words[1] == 'on'
SslOn(sentence) == words(sentence)[2] = Str("on")

\* the view _update_vhost stores, from what its three queries return, or the
\* IndexError it ends with
vhost_from(l, n, s) ==
    IF l.err # "" THEN [err |-> l.err, vhost |-> EmptyVhost]
    ELSE IF \E i \in 1..Len(s.found) : Len(words(s.found[i])) < 2
    THEN [err |-> "IndexError", vhost |-> EmptyVhost]
    ELSE [err |-> "",
          vhost |-> [addrs |-> listen_addrs(l.found),
                     names |-> server_names_of(n.found),
                     ssl |-> \/ \E a \in listen_addrs(l.found) : a.ssl
                             \/ \E i \in 1..Len(s.found) : SslOn(s.found[i])]]

\* ServerBloc._update_vhost on a block with these contents: the view it stores,
\* or the exception it ends with (the view is then left as it was)
_update_vhost(contents, h) ==
    vhost_from(get_directives(contents, Str("listen"), h),
               get_directives(contents, Str("server_name"), h),
               get_directives(contents, Str("ssl"), h))

-----------------------------------------------------------------------------
(* The file system and the tokenizer (external): disk[f].st is "ok" with the    *)
(* raw tree nginxparser.load_raw yields, "ParseException" when the tokenizer    *)
(* fails on the text, "IOError" when the file cannot be opened, "absent" when   *)
(* there is no such file.                                                       *)

FileNames == <<Str("nginx.conf"), <<"conf.d/", "a">>, <<"conf.d/", "b">>>>
FileSet == SeqRange(FileNames)

\* the position of the "*" of a pattern, 0 when it has none
StarAt(pattern) ==
    IF \E i \in 1..Len(pattern) : pattern[i] = "*"
    THEN CHOOSE i \in 1..Len(pattern) : pattern[i] = "*"
    ELSE 0

\* does name consist of the prefix pre, anything, and the suffix suf
AroundStar(name, pre, suf) ==
    /\ Len(name) >= Len(pre) + Len(suf)
    /\ SubSeq(name, 1, Len(pre)) = pre
    /\ SubSeq(name, Len(name) - Len(suf) + 1, Len(name)) = suf

\* fnmatch of a pattern with at most one "*" against a file name
fnmatch(name, pattern) ==
    IF StarAt(pattern) = 0 THEN name = pattern
    ELSE AroundStar(name, SubSeq(pattern, 1, StarAt(pattern) - 1),
                    SubSeq(pattern, StarAt(pattern) + 1, Len(pattern)))

RECURSIVE glob_from(_, _, _)
glob_from(i, pattern, d) ==
    IF i > Len(FileNames) THEN <<>>
    ELSE (IF d[FileNames[i]].st # "absent" /\ fnmatch(FileNames[i], pattern)
          THEN <<FileNames[i]>> ELSE <<>>)
         \o glob_from(i + 1, pattern, d)

\* glob.glob(os.path.join(cwd, pattern)) with cwd = "": the existing files that
\* match, in directory order
glob(pattern, d) == glob_from(1, pattern, d)

-----------------------------------------------------------------------------
(* Parsing.  st = [heap, parsed_files, err] is threaded through: err is "" or   *)
(* the exception that ended the parse.  stack holds the files whose load_from   *)
(* is in progress.                                                              *)

Res(node, st) == [node |-> node, st |-> st]
Raise(st, e) == [node |-> NoneNode, st |-> [st EXCEPT !.err = e]]

\* x in list_[0] of the ServerBloc hook: list membership, or the substring test
\* when list_[0] is a string
InHeader(x, head) ==
    IF islist(head)
    THEN \E i \in 1..Len(head.v) : isstr(head.v[i]) /\ head.v[i].v = x
    ELSE \E i \in 1..Len(head.v) :
            i + Len(x) - 1 <= Len(head.v) /\ SubSeq(head.v, i, i + Len(x) - 1) = x

HookMatches(hook, list_) ==
    CASE hook = "ServerBloc" -> _is_bloc(list_) /\ InHeader(Str("server"), list_.v[1])
      [] hook = "Include" ->
            _is_sentence(list_) /\ InSeq(RStr(Str("include")), list_.v)
      [] hook = "Bloc" -> _is_bloc(list_)
      [] hook = "Sentence" -> _is_sentence(list_)
      [] hook = "Statements" -> islist(list_)

DEFAULT_PARSING_HOOKS == <<"Bloc", "Sentence", "Statements">>
\* a plausible slip of NGINX_PARSING_HOOKS: the two rules are appended to the
\* defaults instead of prepended
NGINX_PARSING_HOOKS_appended == DEFAULT_PARSING_HOOKS \o <<"ServerBloc", "Include">>

NGINX_PARSING_HOOKS == <<"ServerBloc", "Include">> \o DEFAULT_PARSING_HOOKS

RECURSIVE _choose_from(_, _, _)
\* the loop of _choose_parser from the i-th hook on
_choose_from(hooks, list_, i) ==
    IF i > Len(hooks) THEN ""
    ELSE IF HookMatches(hooks[i], list_) THEN hooks[i]
    ELSE _choose_from(hooks, list_, i + 1)

\* _choose_parser: the type of the first hook that matches, "" when none does
_choose_parser(hooks, list_) == _choose_from(hooks, list_, 1)

RECURSIVE parse_raw(_, _, _, _, _)
RECURSIVE parse_as(_, _, _, _, _, _)
RECURSIVE Statements_parse(_, _, _, _, _)
RECURSIVE parse_elems(_, _, _, _, _)
RECURSIVE parse_rest(_, _, _, _, _)
RECURSIVE Include_files(_, _, _, _, _)
RECURSIVE Include_loaded(_, _, _, _, _)
RECURSIVE load_from(_, _, _, _)
RECURSIVE Include_data(_, _, _, _)
RECURSIVE Include_parse(_, _, _, _, _)
RECURSIVE Bloc_parse(_, _, _, _, _, _)

Cons(node, r) == [nodes |-> <<node>> \o r.nodes, st |-> r.st]

\* the list comprehension of Statements.parse after its first element gave r
parse_rest(r, rest, stack, add_spaces, d) ==
    IF r.st.err # "" THEN [nodes |-> <<>>, st |-> r.st]
    ELSE Cons(r.node, parse_elems(rest, stack, add_spaces, d, r.st))

\* the list comprehension of Statements.parse, left to right
parse_elems(elems, stack, add_spaces, d, st) ==
    IF elems = <<>> THEN [nodes |-> <<>>, st |-> st]
    ELSE parse_rest(parse_raw(Head(elems), stack, add_spaces, d, st),
                    Tail(elems), stack, add_spaces, d)

\* is the last element of the list a whitespace string
HasTrailing(v) == Len(v) > 0 /\ isstr(v[Len(v)]) /\ isspace(v[Len(v)].v)

\* the Statements that Statements.parse of the list v leaves, r being what the
\* list comprehension gave
Statements_of(v, r) ==
    IF r.st.err # "" THEN Raise(r.st, r.st.err)
    ELSE Res(StatementsNode(r.nodes, IF HasTrailing(v) THEN <<v[Len(v)].v>> ELSE <<>>),
             r.st)

Statements_parse(parse_this, stack, add_spaces, d, st) ==
    IF ~islist(parse_this) THEN Raise(st, "MisconfigurationError")
    ELSE Statements_of(parse_this.v,
            parse_elems(IF HasTrailing(parse_this.v)
                        THEN SubSeq(parse_this.v, 1, Len(parse_this.v) - 1)
                        ELSE parse_this.v,
                        stack, add_spaces, d, st))

\* Sentence.parse: the _data it stores
Sentence_parse(parse_this, add_spaces) ==
    IF add_spaces THEN _space_list(Unraw(parse_this.v)) ELSE Unraw(parse_this.v)

\* the last two statements of load_from: the parsed Statements r.node becomes a
\* new object of the heap and is registered under f
Register(f, r) ==
    IF r.st.err # "" THEN r
    ELSE Res(r.node, [r.st EXCEPT !.heap = Append(@, r.node),
                                  !.parsed_files[f] = Len(r.st.heap) + 1])

\* a plausible slip of load_from: the tokenizer's ParseException is not caught
load_from_uncaught(f, stack, d, st) ==
    IF d[f].st \in {"IOError", "absent"} THEN Raise(st, "IOError")
    ELSE IF f \in stack THEN Raise(st, "RecursionError")
    ELSE IF d[f].st = "ParseException" THEN Raise(st, "ParseException")
    ELSE Register(f, Statements_parse(d[f].raw, stack \cup {f}, FALSE, d, st))

\* a plausible slip of load_from: a file that is being loaded is not entered a
\* second time, an empty Statements is registered for it instead
load_from_guarded(f, stack, d, st) ==
    IF d[f].st \in {"IOError", "absent"} THEN Raise(st, "IOError")
    ELSE IF f \in stack THEN Register(f, Res(StatementsNode(<<>>, <<>>), st))
    ELSE Register(f, Statements_parse(
            IF d[f].st = "ParseException" THEN RList(<<>>) ELSE d[f].raw,
            stack \cup {f}, FALSE, d, st))

\* Statements.load_from(context) for file f
load_from(f, stack, d, st) ==
    IF d[f].st \in {"IOError", "absent"} THEN Raise(st, "IOError")
    ELSE IF f \in stack THEN Raise(st, "RecursionError")
    ELSE Register(f, Statements_parse(
            IF d[f].st = "ParseException" THEN RList(<<>>) ELSE d[f].raw,
            stack \cup {f}, FALSE, d, st))

\* the else branch of the loop of Include.parse, r being what load_from gave
Include_loaded(files, stack, d, r, acc) ==
    IF r.st.err # "" THEN [parsed |-> acc, st |-> r.st]
    ELSE Include_files(Tail(files), stack, d, r.st,
                       Append(acc, [f |-> Head(files), id |-> Len(r.st.heap)]))

\* a plausible slip of Include.parse: the shared cache is not consulted
Include_files_uncached(files, stack, d, st, acc) ==
    IF files = <<>> THEN [parsed |-> acc, st |-> st]
    ELSE Include_loaded(files, stack, d, load_from(Head(files), stack, d, st), acc)

\* the loop of Include.parse over the globbed files: the (file, id) pairs
Include_files(files, stack, d, st, acc) ==
    IF files = <<>> THEN [parsed |-> acc, st |-> st]
    ELSE IF st.parsed_files[Head(files)] # 0
    THEN Include_files(Tail(files), stack, d, st,
            Append(acc, [f |-> Head(files), id |-> st.parsed_files[Head(files)]]))
    ELSE Include_loaded(files, stack, d, load_from(Head(files), stack, d, st), acc)

Include_of(data, r) ==
    IF r.st.err # "" THEN Raise(r.st, r.st.err)
    ELSE Res(IncludeNode(data, r.parsed), r.st)

\* Include.parse once Sentence.parse has stored data; self.filename is words[1]
Include_data(data, stack, d, st) ==
    IF Len(words_of(data)) < 2 THEN Raise(st, "IndexError")
    ELSE Include_of(data, Include_files(glob(words_of(data)[2], d), stack, d, st, <<>>))

Include_parse(parse_this, stack, add_spaces, d, st) ==
    Include_data(Sentence_parse(parse_this, add_spaces), stack, d, st)

\* self.names of Bloc.parse: with add_spaces a ' ' is appended to the header
Bloc_names(parse_this, add_spaces) ==
    SentenceNode(Sentence_parse(
        RList(IF add_spaces THEN Append(parse_this.v[1].v, RStr(Str(" ")))
              ELSE parse_this.v[1].v),
        add_spaces))

\* ServerBloc.parse after Bloc.parse: u is what _update_vhost gave
ServerBloc_of(names, c, u) ==
    IF u.err # "" THEN Raise(c.st, u.err)
    ELSE Res(ServerBlocNode(names, c.node, u.vhost), c.st)

Bloc_of(type_, names, c) ==
    IF c.st.err # "" THEN c
    ELSE IF type_ = "Bloc" THEN Res(BlocNode(names, c.node), c.st)
    ELSE ServerBloc_of(names, c, _update_vhost(c.node, c.st.heap))

\* Bloc.parse and ServerBloc.parse (type_ is the class the hook chose)
Bloc_parse(type_, parse_this, stack, add_spaces, d, st) ==
    IF ~islist(parse_this.v[1])
    THEN Raise(st, IF add_spaces THEN "AttributeError" ELSE "MisconfigurationError")
    ELSE Bloc_of(type_, Bloc_names(parse_this, add_spaces),
                 Statements_parse(parse_this.v[2], stack, add_spaces, d, st))

\* parser.parse(lists_, add_spaces) of the parser of class type_
parse_as(type_, lists_, stack, add_spaces, d, st) ==
    CASE type_ = "" -> Raise(st, "MisconfigurationError")
      [] type_ \in {"ServerBloc", "Bloc"} ->
            Bloc_parse(type_, lists_, stack, add_spaces, d, st)
      [] type_ = "Include" -> Include_parse(lists_, stack, add_spaces, d, st)
      [] type_ = "Sentence" ->
            Res(SentenceNode(Sentence_parse(lists_, add_spaces)), st)
      [] type_ = "Statements" -> Statements_parse(lists_, stack, add_spaces, d, st)

parse_raw(lists_, stack, add_spaces, d, st) ==
    parse_as(_choose_parser(NGINX_PARSING_HOOKS, lists_), lists_, stack, add_spaces, d, st)

-----------------------------------------------------------------------------
(* Dump *)

RECURSIVE dump(_, _)
RECURSIVE dump_all(_, _)
\* WithLists.dump: [elem.dump(include_spaces) for elem in self._data]
dump_all(nodes, include_spaces) ==
    IF nodes = <<>> THEN <<>>
    ELSE <<dump(Head(nodes), include_spaces)>> \o dump_all(Tail(nodes), include_spaces)

\* a plausible slip of Statements.dump: the test of include_spaces is inverted
Statements_dump_inverted(self, include_spaces) ==
    RList(dump_all(self.data, include_spaces)
          \o (IF ~include_spaces /\ self.trailing # <<>>
              THEN <<RStr(self.trailing[1])>> ELSE <<>>))

\* Statements.dump: the children, then the trailing whitespace when asked for
Statements_dump(self, include_spaces) ==
    RList(dump_all(self.data, include_spaces)
          \o (IF include_spaces /\ self.trailing # <<>>
              THEN <<RStr(self.trailing[1])>> ELSE <<>>))

\* Sentence.dump: the words, or the tokens with the whitespace
Sentence_dump(self, include_spaces) ==
    RList(RawStrs(IF include_spaces THEN self.data ELSE words(self)))

dump(node, include_spaces) ==
    CASE IsSentence(node) -> Sentence_dump(node, include_spaces)
      [] IsBloc(node) ->
            RList(<<dump(node.names, include_spaces), dump(node.contents, include_spaces)>>)
      [] node.kind = "Statements" -> Statements_dump(node, include_spaces)

-----------------------------------------------------------------------------
(* Indentation *)

RECURSIVE get_tabs(_)
\* get_tabs of a node: [err, tabs]; a Sentence without tokens has no _data[0]
get_tabs(node) ==
    CASE IsSentence(node) ->
            IF node.data = <<>> THEN [err |-> "IndexError", tabs |-> <<>>]
            ELSE [err |-> "", tabs |-> spaces_after_newline(node.data[1])]
      [] IsBloc(node) -> get_tabs(node.names)
      [] node.kind = "Statements" ->
            IF node.data = <<>> THEN [err |-> "", tabs |-> <<>>]
            ELSE get_tabs(node.data[1])

FourSpaces == <<" ", " ", " ", " ">>

RECURSIVE set_tabs(_, _, _)
RECURSIVE set_tabs_data(_, _, _)
RECURSIVE parent_tabs_of(_, _, _, _)
RECURSIVE Bloc_set_tabs(_, _, _)

\* self.context.parent.get_tabs() as a child that is a Statements reads it at the
\* end of its set_tabs: done are the parent's children already indented
parent_tabs_of(done, child, rest, tabs) ==
    get_tabs(StatementsNode(
        done \o <<IF child.kind = "Statements"
                  THEN [child EXCEPT !.data = set_tabs_data(<<>>, child.data, tabs)]
                  ELSE child>> \o rest, <<>>)).tabs

\* the loop of Statements.set_tabs over data
set_tabs_data(done, todo, tabs) ==
    IF todo = <<>> THEN done
    ELSE set_tabs_data(
            Append(done, set_tabs(Head(todo), tabs,
                                  parent_tabs_of(done, Head(todo), Tail(todo), tabs))),
            Tail(todo), tabs)

\* Bloc.set_tabs once names.set_tabs(tabs) has given names
Bloc_set_tabs(node, names, tabs) ==
    [node EXCEPT !.names = names,
                 !.contents = set_tabs(node.contents, tabs \o FourSpaces,
                                       get_tabs(names).tabs)]

\* node.set_tabs(tabs); parent_tabs is self.context.parent.get_tabs(), which
\* Statements.set_tabs reads for the trailing whitespace
set_tabs(node, tabs, parent_tabs) ==
    CASE IsSentence(node) -> [node EXCEPT !.data = <<Str("\n") \o tabs>> \o node.data]
      [] IsBloc(node) -> Bloc_set_tabs(node, set_tabs(node.names, tabs, parent_tabs), tabs)
      [] node.kind = "Statements" ->
            [node EXCEPT !.data = set_tabs_data(<<>>, node.data, tabs),
                         !.trailing = <<Str("\n") \o parent_tabs>>]

-----------------------------------------------------------------------------
(* The mutation protocol of Statements.  A match_func is modelled by the set   *)
(* of first words it accepts (neg: the set it rejects); each operator returns  *)
(* the Statements after the call, the threaded st, and the call's record.      *)

Matches(match_func, sentence) ==
    (words(sentence)[1] \in match_func.names) # match_func.neg

\* Statements._get_statement_index: the 1-based index of the first Sentence that
\* matches, 0 when there is none (Python: -1), or IndexError from sentence[0]
RECURSIVE _get_statement_index_from(_, _, _)
_get_statement_index_from(data, match_func, i) ==
    IF i > Len(data) THEN [err |-> "", found |-> 0]
    ELSE IF ~IsSentence(data[i]) THEN _get_statement_index_from(data, match_func, i + 1)
    ELSE IF Len(words(data[i])) = 0 THEN [err |-> "IndexError", found |-> 0]
    ELSE IF Matches(match_func, data[i]) THEN [err |-> "", found |-> i]
    ELSE _get_statement_index_from(data, match_func, i + 1)

_get_statement_index(statements, match_func) ==
    _get_statement_index_from(statements.data, match_func, 1)

InsertAt(seq, i, x) == SubSeq(seq, 1, i - 1) \o <<x>> \o SubSeq(seq, i, Len(seq))
DeleteAt(seq, i) == SubSeq(seq, 1, i - 1) \o SubSeq(seq, i + 1, Len(seq))

\* the record of one call of a Statements method
Call(fn, arg, at_top, pre, post, ret, err) ==
    [fn |-> fn, arg |-> arg, at_top |-> at_top, pre |-> pre, post |-> post,
     ret |-> ret, err |-> err]

\* what a Statements method gives: self after the call, st, the returned value
Outcome(fn, arg, at_top, self, post, ret, st) ==
    [s |-> post, st |-> st, ret |-> ret,
     calls |-> <<Call(fn, arg, at_top, self, post, ret, st.err)>>]

\* index of add_statement (0-based): 0, or len(self._data) before the append
AddIndex(self, insert_at_top) == IF insert_at_top THEN 0 ELSE Len(self.data)

\* a plausible slip of add_statement: the marker is inserted at index, before
\* the node
MarkerIndex_at_index(index) == index

\* where add_statement puts the managed comment (0-based): right after the node
MarkerIndex(index) == index + 1

\* self._data of add_statement after its two inserts of the indented node
add_data(data, node, index) ==
    IF ~IsSentence(node) \/ ~is_comment(node)
    THEN InsertAt(InsertAt(data, index + 1, node), MarkerIndex(index) + 1, certbot_comment)
    ELSE InsertAt(data, index + 1, node)

\* add_statement once the statement is parsed and indented to node
add_node(fn, self, statement, insert_at_top, node, st) ==
    Outcome(fn, statement, insert_at_top, self,
            [self EXCEPT !.data = add_data(self.data, node, AddIndex(self, insert_at_top))],
            node, st)

\* add_statement from what parse_raw (r) and self.get_tabs() (t) gave
add_parsed(self, statement, insert_at_top, r, t) ==
    IF r.st.err # ""
    THEN Outcome("add_statement", statement, insert_at_top, self, self, NoneNode, r.st)
    ELSE IF t.err # ""
    THEN Outcome("add_statement", statement, insert_at_top, self, self, NoneNode,
                 [r.st EXCEPT !.err = t.err])
    ELSE add_node("add_statement", self, statement, insert_at_top,
                  set_tabs(r.node, t.tabs, t.tabs), r.st)

\* Statements.add_statement(statement, insert_at_top)
add_statement(self, statement, insert_at_top, d, st) ==
    add_parsed(self, statement, insert_at_top,
               parse_raw(statement, {}, TRUE, d, st), get_tabs(self))

\* self._data of replace_statement after the assignment and the insert
replace_data(put, found) ==
    IF found + 1 > Len(put) \/ ~is_certbot_comment(put[found + 1])
    THEN InsertAt(put, found + 1, certbot_comment)
    ELSE put

\* the branch of replace_statement that replaces the child at found
replace_parsed(self, statement, insert_at_top, found, r, t) ==
    IF r.st.err # ""
    THEN Outcome("replace_statement", statement, insert_at_top, self, self, NoneNode, r.st)
    ELSE IF t.err # ""
    THEN Outcome("replace_statement", statement, insert_at_top, self, self, NoneNode,
                 [r.st EXCEPT !.err = t.err])
    ELSE Outcome("replace_statement", statement, insert_at_top, self,
                 [self EXCEPT !.data = replace_data(
                     [self.data EXCEPT ![found] = set_tabs(r.node, t.tabs, t.tabs)], found)],
                 NoneNode, r.st)

\* the branch of replace_statement that delegates: a is what add_statement gave
replace_added(self, statement, insert_at_top, a) ==
    [a EXCEPT !.ret = NoneNode,
              !.calls = <<Call("replace_statement", statement, insert_at_top,
                               self, a.s, NoneNode, a.st.err)>> \o @]

\* replace_statement from what _get_statement_index gave
replace_found(self, statement, insert_at_top, d, st, f) ==
    IF f.err # ""
    THEN Outcome("replace_statement", statement, insert_at_top, self, self, NoneNode,
                 [st EXCEPT !.err = f.err])
    ELSE IF f.found = 0
    THEN replace_added(self, statement, insert_at_top,
                       add_statement(self, statement, insert_at_top, d, st))
    ELSE replace_parsed(self, statement, insert_at_top, f.found,
                        parse_raw(statement, {}, TRUE, d, st), get_tabs(self))

\* Statements.replace_statement(statement, match_func, insert_at_top)
replace_statement(self, statement, match_func, insert_at_top, d, st) ==
    replace_found(self, statement, insert_at_top, d, st,
                  _get_statement_index(self, match_func))

\* the second del of a round of remove_statements
remove_marker(cut, found) ==
    IF found <= Len(cut) /\ is_certbot_comment(cut[found])
    THEN DeleteAt(cut, found) ELSE cut

\* one round of the loop of remove_statements: the child at found is deleted,
\* and the node that follows it too when it is a certbot comment
remove_at(data, found) == remove_marker(DeleteAt(data, found), found)

RECURSIVE remove_loop(_, _)
RECURSIVE remove_round(_, _, _)
\* a round of the while loop, f being what _get_statement_index gave
remove_round(data, match_func, f) ==
    IF f.err # "" THEN [err |-> f.err, data |-> data]
    ELSE IF f.found = 0 THEN [err |-> "", data |-> data]
    ELSE remove_loop(remove_at(data, f.found), match_func)

\* the while loop of remove_statements: [err, data]; on IndexError data is what
\* the rounds before it left
remove_loop(data, match_func) ==
    remove_round(data, match_func, _get_statement_index_from(data, match_func, 1))

remove_done(self, match_func, st, r) ==
    Outcome("remove_statements", match_func, FALSE, self,
            [self EXCEPT !.data = r.data], NoneNode, [st EXCEPT !.err = r.err])

\* Statements.remove_statements(match_func)
remove_statements(self, match_func, st) ==
    remove_done(self, match_func, st, remove_loop(self.data, match_func))

-----------------------------------------------------------------------------
(* ServerBloc: each operator returns the block after the call, the threaded   *)
(* st (st.err is the exception the call ended with) and the Statements calls  *)
(* it made.                                                                   *)

NameMatch(name) == [names |-> {name}, neg |-> FALSE]

Result(bloc, st, calls) == [bloc |-> bloc, st |-> st, calls |-> calls]

\* the assignments that end _update_vhost, u being what it computed
Refreshed(self, st, calls, u) ==
    IF u.err # "" THEN Result(self, [st EXCEPT !.err = u.err], calls)
    ELSE Result([self EXCEPT !.vhost = u.vhost], st, calls)

\* the tail of every mutator: self._update_vhost(), not reached when the
\* statements before it raised
Refresh(self, st, calls) ==
    IF st.err # "" THEN Result(self, st, calls)
    ELSE Refreshed(self, st, calls, _update_vhost(self.contents, st.heap))

\* the block after self.contents.add_statement gave a
Added(self, a) == Result([self EXCEPT !.contents = a.s], a.st, a.calls)

\* _add_directive from what contains_exact_directive (c) and get_directives of
\* statement[0] (g) give
_add_checked(self, statement, insert_at_top, is_block, d, st, c, g) ==
    IF c = "True" THEN Result(self, st, <<>>)
    ELSE IF c = "IndexError" THEN Result(self, [st EXCEPT !.err = "IndexError"], <<>>)
    ELSE IF ~is_block /\ statement.v[1].v \notin REPEATABLE_DIRECTIVES /\ g.err # ""
    THEN Result(self, [st EXCEPT !.err = g.err], <<>>)
    ELSE IF ~is_block /\ statement.v[1].v \notin REPEATABLE_DIRECTIVES
            /\ Len(g.found) > 0
    THEN Result(self, [st EXCEPT !.err = "MisconfigurationError"], <<>>)
    ELSE Added(self, add_statement(self.contents, statement, insert_at_top, d, st))

\* ServerBloc._add_directive: nothing is done when the exact statement is present
_add_directive(self, statement, insert_at_top, is_block, d, st) ==
    _add_checked(self, statement, insert_at_top, is_block, d, st,
                 contains_exact_directive(self.contents, statement.v, st.heap),
                 get_directives(self.contents, statement.v[1].v, st.heap))

RECURSIVE add_loop(_, _, _, _, _, _)
RECURSIVE add_next(_, _, _, _, _)
\* the for loop of add_directives after _add_directive gave r
add_next(r, rest, insert_at_top, d, calls) ==
    IF r.st.err # "" THEN Result(r.bloc, r.st, calls \o r.calls)
    ELSE add_loop(r.bloc, rest, insert_at_top, d, r.st, calls \o r.calls)

\* the for loop of add_directives; an exception ends it where it is
add_loop(self, statements, insert_at_top, d, st, calls) ==
    IF statements = <<>> THEN Result(self, st, calls)
    ELSE add_next(_add_directive(self, Head(statements), insert_at_top, FALSE, d, st),
                  Tail(statements), insert_at_top, d, calls)

\* self._update_vhost() at the end of a mutator whose body gave r
Finish(r) == Refresh(r.bloc, r.st, r.calls)

\* ServerBloc.add_directives(statements, insert_at_top, is_block): statements is
\* a sequence of raw statements, or one raw block when is_block
add_directives(self, statements, insert_at_top, is_block, d, st) ==
    Finish(IF is_block
           THEN _add_directive(self, statements, insert_at_top, TRUE, d, st)
           ELSE add_loop(self, statements, insert_at_top, d, st, <<>>))

RECURSIVE replace_loop(_, _, _, _, _, _)
RECURSIVE replace_next(_, _, _, _, _, _)
\* the for loop of replace_directives after replace_statement gave r
replace_next(self, r, rest, insert_at_top, d, calls) ==
    IF r.st.err # ""
    THEN Result([self EXCEPT !.contents = r.s], r.st, calls \o r.calls)
    ELSE replace_loop([self EXCEPT !.contents = r.s], rest, insert_at_top, d, r.st,
                      calls \o r.calls)

replace_loop(self, statements, insert_at_top, d, st, calls) ==
    IF statements = <<>> THEN Result(self, st, calls)
    ELSE replace_next(self,
            replace_statement(self.contents, Head(statements),
                              NameMatch(Head(statements).v[1].v), insert_at_top, d, st),
            Tail(statements), insert_at_top, d, calls)

\* ServerBloc.replace_directives(statements, insert_at_top)
replace_directives(self, statements, insert_at_top, d, st) ==
    Finish(replace_loop(self, statements, insert_at_top, d, st, <<>>))

\* ServerBloc.remove_directives(directive), match_func=None
remove_directives(self, directive, st) ==
    Finish(Added(self, remove_statements(self.contents, NameMatch(directive), st)))

-----------------------------------------------------------------------------
(* Addressing nodes of the heap.  A ServerBloc is reached from the Statements  *)
(* of a file by a path of child indices, each step but the last going through  *)
(* the contents of a Bloc; context.parent of the block is the Statements that  *)
(* holds it.                                                                   *)

Front(p) == SubSeq(p, 1, Len(p) - 1)

RECURSIVE GetStmts(_, _)
GetStmts(statements, q) ==
    IF q = <<>> THEN statements
    ELSE GetStmts(statements.data[q[1]].contents, Tail(q))

RECURSIVE PutStmts(_, _, _)
PutStmts(statements, q, new) ==
    IF q = <<>> THEN new
    ELSE [statements EXCEPT !.data[q[1]].contents = PutStmts(@, Tail(q), new)]

GetNode(statements, p) == GetStmts(statements, Front(p)).data[p[Len(p)]]

PutNode(statements, p, node) ==
    PutStmts(statements, Front(p),
             [GetStmts(statements, Front(p)) EXCEPT !.data[p[Len(p)]] = node])

RECURSIVE ServerPaths(_)
\* the paths of the ServerBlocs below a Statements
ServerPaths(statements) ==
    UNION {
        (IF statements.data[i].kind = "ServerBloc" THEN {<<i>>} ELSE {})
        \cup (IF IsBloc(statements.data[i])
              THEN {<<i>> \o q : q \in ServerPaths(statements.data[i].contents)}
              ELSE {})
        : i \in 1..Len(statements.data)}

\* the ServerBlocs of the loaded documents
Targets(h) ==
    UNION {{[doc |-> id, path |-> p] : p \in ServerPaths(h[id])} : id \in 1..Len(h)}

BlocAt(h, t) == GetNode(h[t.doc], t.path)

\* self.context.parent of the block at t
ParentOf(h, t) == GetStmts(h[t.doc], Front(t.path))

-----------------------------------------------------------------------------
(* ServerBloc.duplicate *)

SINGLETON_LISTEN_PARAMS == <<Str("default_server"), Str("default"), Str("ipv6only=on")>>

RECURSIVE IndexOf(_, _, _)
\* the index of the first occurrence of x in data from i on, 0 when none
IndexOf(data, x, i) ==
    IF i > Len(data) THEN 0
    ELSE IF data[i] = x THEN i
    ELSE IndexOf(data, x, i + 1)

list_removed(data, k) ==
    IF k = 0 THEN [err |-> "ValueError", data |-> data]
    ELSE [err |-> "", data |-> DeleteAt(data, k)]

\* list.remove(x): the first occurrence goes; ValueError when there is none
list_remove(data, x) == list_removed(data, IndexOf(data, x, 1))

RECURSIVE strip_listen(_, _)
RECURSIVE strip_listen_next(_, _)
strip_listen_next(r, k) == IF r.err # "" THEN r ELSE strip_listen(r.data, k + 1)

\* the inner loop of duplicate over the three parameters, from the k-th on
strip_listen(data, k) ==
    IF k > Len(SINGLETON_LISTEN_PARAMS) THEN [err |-> "", data |-> data]
    ELSE IF ~InSeq(SINGLETON_LISTEN_PARAMS[k], words_of(data))
    THEN strip_listen(data, k + 1)
    ELSE strip_listen_next(list_remove(data, SINGLETON_LISTEN_PARAMS[k]), k)

RECURSIVE strip_data(_, _, _, _)
RECURSIVE strip_elem(_, _, _, _)
RECURSIVE strip_put(_, _, _, _, _)
RECURSIVE strip_docs(_, _, _)
RECURSIVE strip_docs_put(_, _)

\* the heap after the listen directives of the document of Head(parsed) are done
strip_docs_put(parsed, r) ==
    strip_docs(Tail(parsed), [r.h EXCEPT ![Head(parsed).id].data = r.data], r.err)

\* the listen directives of the documents an Include resolves to, stripped in
\* the heap objects themselves
strip_docs(parsed, h, err) ==
    IF parsed = <<>> \/ err # "" THEN [h |-> h, err |-> err]
    ELSE strip_docs_put(parsed, strip_data(<<>>, h[Head(parsed).id].data, h, err))

strip_put(done, elem, rest, h, r) ==
    strip_data(Append(done, [elem EXCEPT !.data = r.data]), rest, h, r.err)

\* the generator of get_directives('listen') reaches elem, sub being what the
\* documents elem includes gave
strip_elem(done, elem, rest, sub) ==
    IF sub.err # "" THEN [data |-> done \o <<elem>> \o rest, h |-> sub.h, err |-> sub.err]
    ELSE IF NoWords(elem)
    THEN [data |-> done \o <<elem>> \o rest, h |-> sub.h, err |-> "IndexError"]
    ELSE IF ~IsNamed(elem, Str("listen")) THEN strip_data(Append(done, elem), rest, sub.h, "")
    ELSE strip_put(done, elem, rest, sub.h, strip_listen(elem.data, 1))

\* the outer loop of duplicate over get_directives('listen') of a Statements:
\* done are its children already visited, todo the ones to come
strip_data(done, todo, h, err) ==
    IF todo = <<>> \/ err # "" THEN [data |-> done \o todo, h |-> h, err |-> err]
    ELSE strip_elem(done, Head(todo), Tail(todo),
                    IF IsInclude(Head(todo)) THEN strip_docs(Head(todo).parsed, h, err)
                    ELSE [h |-> h, err |-> err])

\* where add_statement of the parent appends the duplicate
DupTarget(t, h) == [doc |-> t.doc, path |-> Front(t.path) \o <<Len(ParentOf(h, t).data) + 1>>]

\* the heap in which the parent is a.s and the duplicate has these contents
DupHeap(t, dt, a, h, s) ==
    [h EXCEPT ![t.doc] = PutStmts(PutStmts(@, Front(t.path), a.s), dt.path, s)]

\* dup_bloc._update_vhost(), r being what it gave
dup_done(dt, r) ==
    [st |-> [r.st EXCEPT !.heap[dt.doc] = PutNode(@, dt.path, r.bloc)], calls |-> r.calls]

\* duplicate after its loop over the listen directives gave sd
dup_stripped(t, dt, a, rm, sd) ==
    dup_done(dt, Refresh(
        [a.ret EXCEPT !.contents = [rm.s EXCEPT !.data = sd.data]],
        [heap |-> DupHeap(t, dt, a, sd.h, [rm.s EXCEPT !.data = sd.data]),
         parsed_files |-> a.st.parsed_files, err |-> sd.err],
        a.calls \o rm.calls))

\* duplicate after remove_statements of the duplicate's contents gave rm
dup_filtered(t, dt, strip_params, a, rm) ==
    dup_stripped(t, dt, a, rm,
        IF strip_params /\ rm.st.err = ""
        THEN strip_data(<<>>, rm.s.data, a.st.heap, "")
        ELSE [data |-> rm.s.data, h |-> a.st.heap, err |-> rm.st.err])

\* duplicate after add_statement of the parent gave a
dup_added(t, dt, only, strip_params, a) ==
    IF a.st.err # "" THEN [st |-> a.st, calls |-> a.calls]
    ELSE dup_filtered(t, dt, strip_params, a,
            IF only.none THEN [s |-> a.ret.contents, st |-> a.st, calls |-> <<>>]
            ELSE remove_statements(a.ret.contents,
                                   [names |-> only.names, neg |-> TRUE], a.st))

\* ServerBloc.duplicate(only_directives, remove_singleton_listen_params) of the
\* block at t; only = [none |-> TRUE] stands for only_directives=None.
\* Gives the threaded st and the Statements calls made.
duplicate(t, only, remove_singleton_listen_params, d, st) ==
    dup_added(t, DupTarget(t, st.heap), only, remove_singleton_listen_params,
              add_statement(ParentOf(st.heap, t), dump(BlocAt(st.heap, t), FALSE),
                            FALSE, d, st))

-----------------------------------------------------------------------------
(* The configurations the model starts from, as the tokenizer yields them *)

Root == FileNames[1]
FileA == FileNames[2]
FileB == FileNames[3]

NL == Str("\n")
NL4 == Str("\n") \o FourSpaces
NL8 == Str("\n") \o FourSpaces \o FourSpaces

W(ws) == [i \in 1..Len(ws) |-> Str(ws[i])]

\* the whitespace token before a statement, none at the start of a file
Lead(lead) == IF lead = <<>> THEN <<>> ELSE <<lead>>

\* a directive as load_raw yields it: leading whitespace, blank-separated words
Line(lead, ws) == RSent(Lead(lead) \o _space_list(ws))

\* a block: header line, body, the whitespace before the closing brace
Block(lead, ws, body, close) ==
    RList(<<RSent(Lead(lead) \o _space_list(ws) \o <<Str(" ")>>),
            RList(body \o <<RStr(close)>>)>>)

File(raw) == [st |-> "ok", raw |-> raw]
Absent == [st |-> "absent", raw |-> RList(<<>>)]

\* two server blocks that include the same file
Disk1 ==
    [f \in FileSet |->
        CASE f = Root -> File(RList(<<
                Block(NL, W(<<"server">>), <<
                    Line(NL4, W(<<"listen", "80", "default_server">>)),
                    Line(NL4, W(<<"root", "/a">>)),
                    Line(NL4, <<Str("include"), FileA>>)>>, NL),
                Block(NL, W(<<"server">>), <<
                    Line(NL4, W(<<"listen", "443", "ssl">>)),
                    Line(NL4, <<Str("include"), FileA>>)>>, NL),
                RStr(NL)>>))
          [] f = FileA -> File(RList(<<
                Line(<<>>, W(<<"listen", "8080", "default_server">>)),
                Line(NL, W(<<"server_name", "a.com">>)),
                RStr(NL)>>))
          [] OTHER -> Absent]

\* a server block inside http, a glob include, a directive whose quoted
\* arguments are the two tokens of the managed comment
Disk2 ==
    [f \in FileSet |->
        CASE f = Root -> File(RList(<<
                Block(<<>>, W(<<"http">>), <<
                    Line(NL4, <<Str("include"), <<"conf.d/", "*">>>>),
                    Block(NL4, W(<<"server">>), <<
                        Line(NL8, <<Str("server_name"), <<"\"", "a.com", "\"">>>>),
                        Line(NL8, W(<<"error_log", "/a">>)),
                        Line(NL8, <<Str("set"), <<"'", "#", "'">>, <<"'">> \o COMMENT \o <<"'">>>>),
                        Line(NL8, W(<<"ssl", "on">>))>>, NL4)>>, NL)>>))
          [] f = FileA -> File(RList(<<Line(<<>>, W(<<"foo", "bar">>))>>))
          [] f = FileB -> File(RList(<<Line(<<>>, <<Str("include"), FileA>>)>>))]

\* a server block that includes a file whose listen directive has a quoted
\* parameter, before a listen directive of its own
Disk3 ==
    [f \in FileSet |->
        CASE f = Root -> File(RList(<<
                Block(<<>>, W(<<"server">>), <<
                    Line(NL4, <<Str("include"), FileA>>),
                    Line(NL4, W(<<"listen", "80", "default_server", "ssl">>))>>, NL),
                RStr(NL)>>))
          [] f = FileA -> File(RList(<<
                Line(<<>>, <<Str("listen"), Str("8080"),
                             <<"\"", "default_server", "\"">>>>),
                RStr(NL)>>))
          [] OTHER -> Absent]

Disks == {Disk1, Disk2, Disk3}

-----------------------------------------------------------------------------
(* The calls the model makes *)

MaxOps == 2

S(ws) == RSent(W(ws))

AddInputs ==
    {[statements |-> <<S(<<"foo", "bar">>)>>, insert_at_top |-> b] : b \in BOOLEAN}
    \cup {[statements |-> <<S(<<"#", " note">>)>>, insert_at_top |-> b] : b \in BOOLEAN}
    \cup {[statements |-> l, insert_at_top |-> FALSE] : l \in {
            <<S(<<"listen", "443", "ssl">>), S(<<"root", "/b">>)>>,
            <<RSent(<<Str("server_name"), <<"\"", "b.com", "\"">>>>)>>,
            <<RSent(<<Str("include"), FileA>>)>>,
            <<S(<<"error_log", "/a", "debug">>)>>,
            <<S(<<"listen", "80">>)>>,
            <<S(<<"ssl">>)>>}}

BlockInput == RList(<<S(<<"location", "/">>), RList(<<S(<<"root", "/c">>)>>)>>)

ReplaceInputs ==
    {<<S(<<"error_log", "/b">>)>>,
     <<S(<<"listen", "443", "ssl">>)>>,
     <<S(<<"ssl", "on", "x">>)>>}

RemoveInputs == {Str("error_log"), Str("listen"), Str("foo")}

NoFilter == [none |-> TRUE, names |-> {}]
DupInputs == {NoFilter, [none |-> FALSE, names |-> {Str("listen"), Str("foo")}]}

-----------------------------------------------------------------------------
(* The state machine *)

NoTarget == [doc |-> 0, path |-> <<>>]

\* the record of a call: its target, arguments, exception, the Statements calls
\* it made, the heap before it, and whether it repeats the call before it
LastCall(op, t, args, err, calls, pre, rep) ==
    [op |-> op, t |-> t, args |-> args, err |-> err, calls |-> calls, pre |-> pre,
     rep |-> rep]

NoCall == LastCall("none", NoTarget, <<>>, "", <<>>, <<>>, FALSE)

Init ==
    /\ disk \in Disks
    /\ heap = <<>>
    /\ parsed_files = [f \in FileSet |-> 0]
    /\ phase = "init"
    /\ last = NoCall
    /\ nops = 0

St == [heap |-> heap, parsed_files |-> parsed_files, err |-> ""]

\* the state after load_from of the root file gave r
Loaded(r) ==
    /\ heap' = r.st.heap
    /\ parsed_files' = r.st.parsed_files
    /\ phase' = IF r.st.err = "" THEN "ready" ELSE "failed"
    /\ last' = LastCall("load", NoTarget, <<>>, r.st.err, <<>>, heap, FALSE)
    /\ UNCHANGED <<disk, nops>>

\* the caller loads the root file: Statements.load_from(context)
Load ==
    /\ phase = "init"
    /\ Loaded(load_from(Root, {}, disk, St))

\* is the call the same call as the one before it
Repeats(op, t, args) == last.op = op /\ last.t = t /\ last.args = args

\* the state after a call that left the heap h
Commit(op, t, args, st, calls) ==
    /\ heap' = st.heap
    /\ parsed_files' = st.parsed_files
    /\ last' = LastCall(op, t, args, st.err, calls, heap, Repeats(op, t, args))
    /\ nops' = nops + 1
    /\ UNCHANGED <<disk, phase>>

\* the state after a call on the block at t that gave r = [bloc, st, calls]
CommitBloc(op, t, args, r) ==
    Commit(op, t, args, [r.st EXCEPT !.heap[t.doc] = PutNode(@, t.path, r.bloc)], r.calls)

AddDirectives ==
    /\ phase = "ready" /\ nops < MaxOps
    /\ \E t \in Targets(heap), a \in AddInputs :
        CommitBloc("add_directives", t, a,
            add_directives(BlocAt(heap, t), a.statements, a.insert_at_top, FALSE, disk, St))

AddBlock ==
    /\ phase = "ready" /\ nops < MaxOps
    /\ \E t \in Targets(heap) :
        CommitBloc("add_block", t, [statements |-> BlockInput, insert_at_top |-> FALSE],
            add_directives(BlocAt(heap, t), BlockInput, FALSE, TRUE, disk, St))

ReplaceDirectives ==
    /\ phase = "ready" /\ nops < MaxOps
    /\ \E t \in Targets(heap), l \in ReplaceInputs :
        CommitBloc("replace_directives", t, [statements |-> l, insert_at_top |-> FALSE],
            replace_directives(BlocAt(heap, t), l, FALSE, disk, St))

RemoveDirectives ==
    /\ phase = "ready" /\ nops < MaxOps
    /\ \E t \in Targets(heap), name \in RemoveInputs :
        CommitBloc("remove_directives", t, [directive |-> name],
            remove_directives(BlocAt(heap, t), name, St))

Duplicated(t, args, r) == Commit("duplicate", t, args, r.st, r.calls)

Duplicate ==
    /\ phase = "ready" /\ nops < MaxOps
    /\ \E t \in Targets(heap), only \in DupInputs, strip_params \in BOOLEAN :
        Duplicated(t, [only |-> only, strip |-> strip_params],
                   duplicate(t, only, strip_params, disk, St))

Next ==
    \/ Load
    \/ AddDirectives
    \/ AddBlock
    \/ ReplaceDirectives
    \/ RemoveDirectives
    \/ Duplicate

Spec == Init /\ [][Next]_vars

-----------------------------------------------------------------------------
(* Parsing, dumping and re-parsing bounded raw token trees *)

RTMaxLen == 2

RTTokens ==
    {Str("a"), Str(" "), <<"'", "b", "'">>, Str("include"), FileA, Str("server"), Str("#")}

\* every list of at most RTMaxLen tokens
RTSentences == {RSent(ts) : ts \in UNION {[1..n -> RTTokens] : n \in 0..RTMaxLen}}

RTShort == {RSent(<<tok>>) : tok \in RTTokens}

RTBodies ==
    {<<>>, <<RStr(NL)>>, <<RStr(Str("a"))>>}
    \cup {<<sentence>> : sentence \in RTShort}
    \cup {<<sentence, RStr(NL4)>> : sentence \in RTShort}

RTHeaders == {RSent(<<Str("server"), Str(" ")>>), RSent(<<Str("a")>>), RStr(Str("server"))}

RTBlocks == {RList(<<header, RList(body)>>) : header \in RTHeaders, body \in RTBodies}

RTElems == RTSentences \cup RTBlocks \cup {RStr(Str("a"))}

\* the raw trees of the root file: one statement with or without a trailing
\* whitespace token, or a list of three sentences as one element
RTDocs ==
    {RList(<<elem>> \o trailing) : elem \in RTElems, trailing \in {<<>>, <<RStr(NL)>>}}
    \cup {RList(<<RList(<<s1, s1, s2>>)>>) : s1 \in RTShort, s2 \in RTShort}

RTDisk(raw) ==
    [f \in FileSet |->
        CASE f = Root -> File(raw)
          [] f = FileA -> File(RList(<<Line(<<>>, W(<<"foo", "bar">>))>>))
          [] OTHER -> Absent]

InitRT ==
    /\ disk \in {RTDisk(raw) : raw \in RTDocs}
    /\ heap = <<>>
    /\ parsed_files = [f \in FileSet |-> 0]
    /\ phase = "init"
    /\ last = NoCall
    /\ nops = 0

\* the root document
RootDoc == heap[parsed_files[Root]]

\* the state after Statements.parse of the dumped document gave r
Reparsed(r) ==
    /\ heap' = r.st.heap
    /\ parsed_files' = r.st.parsed_files
    /\ last' = LastCall("reparse", NoTarget, [again |-> r.node], r.st.err, <<>>, heap, FALSE)
    /\ UNCHANGED <<disk, phase, nops>>

\* the caller dumps the loaded document with whitespace and parses the dump
Reparse ==
    /\ phase = "ready" /\ last.op = "load"
    /\ Reparsed(Statements_parse(dump(RootDoc, TRUE), {}, FALSE, disk, St))

NextRT ==
    \/ Load
    \/ Reparse

SpecRT == InitRT /\ [][NextRT]_vars

-----------------------------------------------------------------------------
(* Dispatching bounded raw nodes *)

DMaxLen == 2

DAtoms ==
    {RStr(Str("a")), RStr(Str("server")), RStr(<<"server", " ">>), RStr(Str("include")),
     RSent(<<>>), RSent(<<Str("a")>>), RSent(<<Str("server"), Str(" ")>>),
     RSent(<<Str("include"), FileA>>), RSent(<<Str("server"), Str("include")>>)}

\* a token, or a list of at most DMaxLen tokens and lists of tokens
DRaw == DAtoms \cup {RList(l) : l \in UNION {[1..n -> DAtoms] : n \in 1..DMaxLen}}

\* the raw node to dispatch is what the tokenizer yields for the root file
InitD ==
    /\ disk \in {RTDisk(raw) : raw \in DRaw}
    /\ heap = <<>>
    /\ parsed_files = [f \in FileSet |-> 0]
    /\ phase = "init"
    /\ last = NoCall
    /\ nops = 0

HookTables == {DEFAULT_PARSING_HOOKS, NGINX_PARSING_HOOKS}

\* the state after _choose_parser returned a parser of class type_ ("": raised)
Chosen(hooks, list_, type_) ==
    /\ last' = LastCall("_choose_parser", NoTarget,
                        [hooks |-> hooks, list_ |-> list_, type_ |-> type_],
                        IF type_ = "" THEN "MisconfigurationError" ELSE "",
                        <<>>, heap, FALSE)
    /\ UNCHANGED <<disk, heap, parsed_files, phase, nops>>

\* _choose_parser(child_context, list_) under either hook table
ChooseParser ==
    \E hooks \in HookTables :
        Chosen(hooks, disk[Root].raw, _choose_parser(hooks, disk[Root].raw))

\* the state after parse_raw gave r
ParsedRaw(list_, r) ==
    /\ heap' = r.st.heap
    /\ parsed_files' = r.st.parsed_files
    /\ last' = LastCall("parse_raw", NoTarget, [list_ |-> list_, node |-> r.node],
                        r.st.err, <<>>, heap, FALSE)
    /\ UNCHANGED <<disk, phase, nops>>

\* parse_raw(lists_, context) in an nginx context
ParseRaw == ParsedRaw(disk[Root].raw, parse_raw(disk[Root].raw, {}, FALSE, disk, St))

NextD ==
    \/ ChooseParser
    \/ ParseRaw

SpecD == InitD /\ [][NextD]_vars

-----------------------------------------------------------------------------
(* Querying bounded documents *)

QMaxLen == 2

\* the statements a root file is made of
QElems ==
    {Line(NL, W(<<"a", "b">>)),
     Line(NL, W(<<"a">>)),
     Line(NL, W(<<"a", "b", "#">>)),
     Line(NL, <<Str("a"), <<"\"", "b", "\"">>>>),
     Line(NL, W(<<"a", "b", "c">>)),
     Line(NL, <<Str("include"), FileA>>),
     Line(NL, <<Str("include"), <<"conf.d/", "*">>>>),
     Block(NL, W(<<"x">>), <<
         Line(NL4, W(<<"a", "b">>)),
         Block(NL4, W(<<"y">>), <<Line(NL8, W(<<"a", "c">>))>>, NL4)>>, NL),
     Block(NL, W(<<"server">>), <<Line(NL4, W(<<"a">>))>>, NL)}

\* the root files: at most QMaxLen statements and the trailing newline
QRoots ==
    {RList(l \o <<RStr(NL)>>) : l \in UNION {[1..n -> QElems] : n \in 0..QMaxLen}}

\* conf.d/a holds a directive and a block, conf.d/b includes conf.d/a
QDisk(raw) ==
    [f \in FileSet |->
        CASE f = Root -> File(raw)
          [] f = FileA -> File(RList(<<
                Line(<<>>, W(<<"a", "b">>)),
                Block(NL, W(<<"z">>), <<Line(NL4, W(<<"a">>))>>, NL),
                RStr(NL)>>))
          [] f = FileB -> File(RList(<<
                Line(<<>>, <<Str("include"), FileA>>),
                Line(NL, W(<<"a", "c">>)),
                RStr(NL)>>))]

\* a file the tokenizer fails on, and a file that cannot be read
Unparsable == [st |-> "ParseException", raw |-> RList(<<>>)]
Unreadable == [st |-> "IOError", raw |-> RList(<<>>)]

Inc(lead, pattern) == Line(lead, <<Str("include"), pattern>>)

\* root files around their includes: of one file, of a glob, of two files in
\* turn, of the root file itself, and inside a block
LRoots ==
    {File(RList(<<Inc(<<>>, FileA), Line(NL, W(<<"a", "b">>)), RStr(NL)>>)),
     File(RList(<<Inc(<<>>, <<"conf.d/", "*">>), Line(NL, W(<<"a", "b">>)), RStr(NL)>>)),
     File(RList(<<Inc(<<>>, FileB), Inc(NL, FileA), RStr(NL)>>)),
     File(RList(<<Line(<<>>, W(<<"a", "b">>)), Inc(NL, Root), RStr(NL)>>)),
     File(RList(<<Block(<<>>, W(<<"x">>), <<Inc(NL4, FileA)>>, NL), RStr(NL)>>)),
     Unparsable,
     Unreadable}

\* what conf.d/a and conf.d/b may be: a directive, an include of the other or
\* of itself, unparsable, unreadable, absent
LFiles(self, other) ==
    {File(RList(<<Line(<<>>, W(<<"a", "c">>)), RStr(NL)>>)),
     File(RList(<<Inc(<<>>, other), Line(NL, W(<<"a", "c">>)), RStr(NL)>>)),
     File(RList(<<Line(<<>>, W(<<"a", "c">>)), Inc(NL, self)>>)),
     Unparsable,
     Unreadable,
     Absent}

LDisk(root, a, b) ==
    [f \in FileSet |-> CASE f = Root -> root [] f = FileA -> a [] f = FileB -> b]

LDisks == {LDisk(root, a, b) : root \in LRoots, a \in LFiles(FileA, FileB),
                                b \in LFiles(FileB, FileA)}

QDisks == {QDisk(raw) : raw \in QRoots} \cup LDisks

InitQ ==
    /\ disk \in QDisks
    /\ heap = <<>>
    /\ parsed_files = [f \in FileSet |-> 0]
    /\ phase = "init"
    /\ last = NoCall
    /\ nops = 0

\* the state after a query of the root document that leaves every object alone
Queried(op, args, err) ==
    /\ last' = LastCall(op, NoTarget, args, err, <<>>, heap, FALSE)
    /\ UNCHANGED <<disk, heap, parsed_files, phase, nops>>

\* the statements callers ask for: words without whitespace tokens
QStatements ==
    {S(<<>>), S(<<"a">>), S(<<"b">>), S(<<"a", "b">>), S(<<"a", "c">>),
     S(<<"a", "b", "c">>), S(<<"#">>),
     RSent(<<Str("a"), <<"\"", "b", "\"">>>>)}

\* the state after contains_exact_directive gave c
Contained(statement, c) ==
    Queried("contains_exact_directive", [statement |-> statement, ret |-> c],
            IF c = "IndexError" THEN c ELSE "")

\* Statements.contains_exact_directive(statement) of the root document
ContainsExact ==
    /\ phase = "ready"
    /\ \E statement \in QStatements :
        Contained(statement, contains_exact_directive(RootDoc, statement.v, heap))

\* list(statements.iterate_expanded()) of the root document
IterateExpanded ==
    /\ phase = "ready"
    /\ Queried("iterate_expanded", [ret |-> iterate_expanded(RootDoc, heap)], "")

QNames == {Str("a"), Str("include"), Str("x"), Str("foo")}

Found(op, name, r) == Queried(op, [name |-> name, ret |-> r.found], r.err)

\* list(statements.get_directives(name)) of the root document
GetDirectives ==
    /\ phase = "ready"
    /\ \E name \in QNames :
        Found("get_directives", name, get_directives(RootDoc, name, heap))

\* list(statements.get_thing_recursive(match_func)) of the root document
GetThingRecursive ==
    /\ phase = "ready"
    /\ \E name \in QNames :
        Found("get_thing_recursive", name, get_thing_recursive(RootDoc, name, heap))

NextQ ==
    \/ Load
    \/ ContainsExact
    \/ IterateExpanded
    \/ GetDirectives
    \/ GetThingRecursive

SpecQ == InitQ /\ [][NextQ]_vars

-----------------------------------------------------------------------------
(* Sequences of calls on bounded server blocks without a marker *)

MMaxLen == 2
MMaxOps == 2

\* the directives a server block starts with; the last has the two tokens of
\* the managed comment as its quoted arguments
MOrig ==
    {Line(NL4, W(<<"error_log", "/a">>)),
     Line(NL4, W(<<"listen", "80">>)),
     Line(NL4, <<Str("set"), <<"'", "#", "'">>, <<"'">> \o COMMENT \o <<"'">>>>)}

\* every body of at most MMaxLen such directives
MBodies == UNION {[1..n -> MOrig] : n \in 0..MMaxLen}

MDisk(body) ==
    [f \in FileSet |->
        IF f = Root
        THEN File(RList(<<Block(<<>>, W(<<"server">>), body, NL), RStr(NL)>>))
        ELSE Absent]

\* the argument values only the calls use
MTokens == {Str("/m"), Str("443"), Str("m")}

MAddInputs ==
    {[statements |-> <<S(<<"foo", "m">>)>>, insert_at_top |-> b] : b \in BOOLEAN}
    \cup {[statements |-> l, insert_at_top |-> FALSE] : l \in {
            <<S(<<"listen", "443">>), S(<<"error_log", "/m">>)>>,
            <<S(<<"error_log", "/m">>)>>}}

MReplaceInputs == {<<S(<<"error_log", "/m">>)>>, <<S(<<"listen", "443">>)>>}

MRemoveInputs == {Str("error_log"), Str("listen"), Str("foo")}

InitM ==
    /\ disk \in {MDisk(body) : body \in MBodies}
    /\ heap = <<>>
    /\ parsed_files = [f \in FileSet |-> 0]
    /\ phase = "init"
    /\ last = NoCall
    /\ nops = 0

AddM ==
    /\ phase = "ready" /\ nops < MMaxOps
    /\ \E t \in Targets(heap), a \in MAddInputs :
        CommitBloc("add_directives", t, a,
            add_directives(BlocAt(heap, t), a.statements, a.insert_at_top, FALSE, disk, St))

ReplaceM ==
    /\ phase = "ready" /\ nops < MMaxOps
    /\ \E t \in Targets(heap), l \in MReplaceInputs :
        CommitBloc("replace_directives", t, [statements |-> l, insert_at_top |-> FALSE],
            replace_directives(BlocAt(heap, t), l, FALSE, disk, St))

RemoveM ==
    /\ phase = "ready" /\ nops < MMaxOps
    /\ \E t \in Targets(heap), name \in MRemoveInputs :
        CommitBloc("remove_directives", t, [directive |-> name],
            remove_directives(BlocAt(heap, t), name, St))

NextM ==
    \/ Load
    \/ AddM
    \/ ReplaceM
    \/ RemoveM

SpecM == InitM /\ [][NextM]_vars

-----------------------------------------------------------------------------
(* What the specification says, stated over the calls the model records *)

\* the managed-comment marker by exact structural equality: the two tokens only
IsMarker(node) == IsSentence(node) /\ words(node) = COMMENT_BLOCK

\* the words of a raw statement
StmtWords(statement) == Unraw(statement.v)

\* is the raw statement itself a comment
IsCommentStatement(statement) ==
    _is_sentence(statement) /\ Len(StmtWords(statement)) > 0
    /\ StmtWords(statement)[1] = Str("#")

RECURSIVE IncludesIn(_)
\* the Include nodes below a Statements
IncludesIn(statements) ==
    UNION {IF IsInclude(statements.data[i]) THEN {statements.data[i]}
           ELSE IF IsBloc(statements.data[i]) THEN IncludesIn(statements.data[i].contents)
           ELSE IF statements.data[i].kind = "Statements" THEN IncludesIn(statements.data[i])
           ELSE {}
           : i \in 1..Len(statements.data)}

\* the Include nodes of every loaded document
InclusionSites == UNION {IncludesIn(heap[id]) : id \in 1..Len(heap)}

\* the inclusion sites that resolve to the file f
SitesOf(f) == {inc \in InclusionSites : \E i \in 1..Len(inc.parsed) : inc.parsed[i].f = f}

\* C1: two Include nodes that resolve to the same filename, whether parsed from
\* the same file, from different files, or created later by add_directives or
\* duplicate, map that filename to the same Statements object (and that object is
\* the one the shared cache holds), so what is changed through one inclusion
\* site is what every other site reads.
C1_IncludeDedupIdentity ==
    \A a \in InclusionSites, b \in InclusionSites :
        \A i \in 1..Len(a.parsed), j \in 1..Len(b.parsed) :
            a.parsed[i].f = b.parsed[j].f =>
                /\ a.parsed[i].id = b.parsed[j].id
                /\ a.parsed[i].id = parsed_files[a.parsed[i].f]

\* an include of conf.d/a was added to a server block while other inclusion
\* sites of other files already resolved to conf.d/a
C1_Witness ==
    /\ last.op = "add_directives" /\ last.err = ""
    /\ last.args.statements = <<RSent(<<Str("include"), FileA>>)>>
    /\ Len(last.calls) = 1
    /\ Cardinality(SitesOf(FileA)) >= 3

\* the 1-based position at which Statements.add must put the new node
AddedAt(c) == IF c.at_top THEN 1 ELSE Len(c.pre.data) + 1

\* what Statements.add must do to the child sequence, c being the call's record
AddAsSpecified(c) ==
    /\ c.post.data[AddedAt(c)] = c.ret
    /\ words(IF IsBloc(c.ret) THEN c.ret.names ELSE c.ret)
            = words_of(StmtWords(IF IsBloc(c.ret) THEN c.arg.v[1] ELSE c.arg))
    /\ IF IsCommentStatement(c.arg)
       THEN c.post.data = InsertAt(c.pre.data, AddedAt(c), c.ret)
       ELSE /\ Len(c.post.data) = Len(c.pre.data) + 2
            /\ IsMarker(c.post.data[AddedAt(c) + 1])
            /\ DeleteAt(DeleteAt(c.post.data, AddedAt(c) + 1), AddedAt(c)) = c.pre.data

\* C4: Statements.add puts the new node at the front of the child sequence when
\* at_top is true and at the back otherwise and returns it; unless the statement
\* is itself a comment the sibling right after it is exactly the managed-comment
\* marker, and for a comment no marker is inserted; the children that were there
\* keep their order.
C4_AddMarkerPairing ==
    \A k \in 1..Len(last.calls) :
        (last.calls[k].fn = "add_statement" /\ last.calls[k].err = "")
            => AddAsSpecified(last.calls[k])

\* a directive that is no comment was added at the top of a block with children
C4_Witness ==
    \E k \in 1..Len(last.calls) :
        /\ last.calls[k].fn = "add_statement" /\ last.calls[k].err = ""
        /\ last.calls[k].at_top
        /\ ~IsCommentStatement(last.calls[k].arg)
        /\ Len(last.calls[k].pre.data) >= 2

\* does the first sequence start with the second
StartsWith(ws, prefix) ==
    Len(ws) >= Len(prefix) /\ SubSeq(ws, 1, Len(prefix)) = prefix

\* contains_exact as specified: some expanded Sentence has exactly the words of
\* the statement, or has them followed by a comment
ExactlyPresent(contents, statement, h) ==
    \E e \in SeqRange(iterate_expanded(contents, h)) :
        /\ IsSentence(e)
        /\ \/ words(e) = StmtWords(statement)
           \/ StartsWith(words(e), StmtWords(statement) \o <<Str("#")>>)

\* is a directive of that name among the direct children
DirectlyNamed(contents, name) ==
    \E i \in 1..Len(contents.data) : IsNamed(contents.data[i], name)

\* when add_directives must fail for the statement: it is not exactly present,
\* its name is not repeatable and a direct child has that name
MustConflict(bloc, statement, h) ==
    /\ ~ExactlyPresent(bloc.contents, statement, h)
    /\ StmtWords(statement)[1] \notin REPEATABLE_DIRECTIVES
    /\ DirectlyNamed(bloc.contents, StmtWords(statement)[1])

\* C2: add_directives (as_block false) of one statement fails with
\* ConflictError (MisconfigurationError in the code) if and only if the statement
\* is not already exactly present, its name is not in the repeatable set and a
\* directive of that name is among the block's direct children; in every other
\* case the statement is skipped or added without error.
C2_UniquenessEnforcement ==
    (last.op = "add_directives" /\ Len(last.args.statements) = 1) =>
        IF MustConflict(BlocAt(last.pre, last.t), last.args.statements[1], last.pre)
        THEN last.err = "MisconfigurationError"
        ELSE last.err = ""

\* C3: of two add_directives calls in a row on the same block with the identical
\* statement list, the second leaves the block's children and its view exactly
\* as the first left them.
C3_IdempotentAdd ==
    (last.op = "add_directives" /\ last.rep) =>
        BlocAt(heap, last.t) = BlocAt(last.pre, last.t)

RECURSIVE RemoveAsSpecified(_, _)
\* the children that must remain after remove_directives(name): every directive
\* of that name goes, and with it the marker right after it; nothing else
RemoveAsSpecified(data, name) ==
    IF data = <<>> THEN <<>>
    ELSE IF IsNamed(Head(data), name)
    THEN (IF Len(data) >= 2 /\ IsMarker(data[2])
          THEN RemoveAsSpecified(SubSeq(data, 3, Len(data)), name)
          ELSE RemoveAsSpecified(Tail(data), name))
    ELSE <<Head(data)>> \o RemoveAsSpecified(Tail(data), name)

\* C5: after remove_directives(name) returns, no direct child directive of that
\* name remains, the managed-comment marker that followed each deleted directive
\* is deleted too, and every other child is still there, unchanged and in its
\* order.
C5_RemovalFrame ==
    (last.op = "remove_directives" /\ last.err = "") =>
        BlocAt(heap, last.t).contents.data
            = RemoveAsSpecified(BlocAt(last.pre, last.t).contents.data,
                                last.args.directive)

RECURSIVE FirstNamed(_, _, _)
\* the index of the first direct child directive of that name from i on, 0 when
\* there is none
FirstNamed(data, name, i) ==
    IF i > Len(data) THEN 0
    ELSE IF IsNamed(data[i], name) THEN i
    ELSE FirstNamed(data, name, i + 1)

\* what Statements.replace must do when the child at found matches
ReplaceAsSpecified(c, found) ==
    /\ words(c.post.data[found]) = words_of(StmtWords(c.arg))
    /\ Len(c.post.data) > found /\ IsMarker(c.post.data[found + 1])
    /\ IF Len(c.pre.data) > found /\ IsMarker(c.pre.data[found + 1])
       THEN c.post.data = [c.pre.data EXCEPT ![found] = c.post.data[found]]
       ELSE c.post.data = InsertAt([c.pre.data EXCEPT ![found] = c.post.data[found]],
                                   found + 1, c.post.data[found + 1])

\* what Statements.replace must do when no child matches: what add does
ReplaceAddsAsSpecified(c) ==
    /\ words(c.post.data[AddedAt(c)]) = words_of(StmtWords(c.arg))
    /\ Len(c.post.data) = Len(c.pre.data) + 2
    /\ IsMarker(c.post.data[AddedAt(c) + 1])
    /\ DeleteAt(DeleteAt(c.post.data, AddedAt(c) + 1), AddedAt(c)) = c.pre.data

\* C6: Statements.replace finds the first direct child that matches; when there
\* is none it behaves as add; otherwise it overwrites that child at its index,
\* leaves every other child in place, and a managed-comment marker follows it,
\* a new one being inserted only when the node after it is not a marker already.
C6_Replacement ==
    \A k \in 1..Len(last.calls) :
        (last.calls[k].fn = "replace_statement" /\ last.calls[k].err = "") =>
            IF FirstNamed(last.calls[k].pre.data, StmtWords(last.calls[k].arg)[1], 1) = 0
            THEN ReplaceAddsAsSpecified(last.calls[k])
            ELSE ReplaceAsSpecified(last.calls[k],
                    FirstNamed(last.calls[k].pre.data, StmtWords(last.calls[k].arg)[1], 1))

\* C7: after any sequence of add_directives, replace_directives,
\* remove_directives and duplicate calls, the view (addrs, names, ssl) of every
\* ServerBloc is what recomputing the derivation from the block's current direct
\* and include-expanded children gives.
C7_ViewConsistency ==
    phase = "ready" =>
        \A t \in Targets(heap) :
            /\ _update_vhost(BlocAt(heap, t).contents, heap).err = ""
            /\ BlocAt(heap, t).vhost = _update_vhost(BlocAt(heap, t).contents, heap).vhost

\* the ssl flag as specified: some listen directive among the expanded children
\* parses to an address with the ssl flag, or some ssl directive among them has
\* on as its sole argument
SslAsSpecified(contents, h) ==
    \E e \in SeqRange(iterate_expanded(contents, h)) :
        \/ /\ IsNamed(e, Str("listen"))
           /\ ~Addr_fromstring(JoinWith(Str(" "), Tail(words(e)))).isnone
           /\ Addr_fromstring(JoinWith(Str(" "), Tail(words(e)))).ssl
        \/ /\ IsNamed(e, Str("ssl"))
           /\ Tail(words(e)) = <<Str("on")>>

\* C8: recomputing the view of a ServerBloc completes for every block content,
\* and the ssl flag it gives is true if and only if some listen directive among
\* the direct, include-expanded children carries the ssl flag or some ssl
\* directive among them has on as its sole argument.
C8_ViewSslFlag ==
    phase = "ready" =>
        \A t \in Targets(heap) :
            /\ _update_vhost(BlocAt(heap, t).contents, heap).err = ""
            /\ _update_vhost(BlocAt(heap, t).contents, heap).vhost.ssl
                    <=> SslAsSpecified(BlocAt(heap, t).contents, heap)

\* C9: a raw tree that parses, dumped with whitespace and parsed again, parses,
\* and the structural dump of the second parse is the structural dump of the
\* first.
C9_RoundTrip ==
    last.op = "reparse" =>
        /\ last.err = ""
        /\ dump(last.args.again, FALSE) = dump(RootDoc, FALSE)

\* a block with a trailing whitespace token in its body, in a document with a
\* trailing whitespace token of its own, went through the round trip
C9_Witness ==
    /\ last.op = "reparse" /\ last.err = ""
    /\ RootDoc.trailing # <<>>
    /\ Len(RootDoc.data) = 1 /\ IsBloc(RootDoc.data[1])
    /\ RootDoc.data[1].contents.trailing # <<>>
    /\ Len(RootDoc.data[1].contents.data) = 1

\* stands in for the node a frame leaves out
Hole == SentenceNode(<<>>)

\* the whitespace dumps of the documents loaded before the call and of every
\* node of the target's document outside the block the call was made on
OutsideTarget(h) ==
    [id \in 1..Len(last.pre) |->
        IF id = last.t.doc
        THEN dump(PutNode(h[id], last.t.path, Hole), TRUE).v
        ELSE dump(h[id], TRUE).v]

\* the same for duplicate, which appends to the parent of the block: the
\* siblings that were there before the call
OutsideParent(h) ==
    [id \in 1..Len(last.pre) |->
        IF id = last.t.doc
        THEN dump(PutStmts(h[id], Front(last.t.path),
                    [ParentOf(h, last.t) EXCEPT
                        !.data = SubSeq(@, 1, Len(ParentOf(last.pre, last.t).data))]),
                  TRUE).v
        ELSE dump(h[id], TRUE).v]

\* C10: the whitespace-preserving dump of an unmodified parsed document is the
\* raw input token for token, trailing whitespace tokens included; and after a
\* mutation of one block the whitespace-preserving dump of every node the
\* mutation did not touch is the same as before.
C10_FormattingFidelity ==
    /\ (last.op = "load" /\ last.err = "") => dump(RootDoc, TRUE) = disk[Root].raw
    /\ last.op \in {"add_directives", "add_block", "replace_directives",
                    "remove_directives"} => OutsideTarget(heap) = OutsideTarget(last.pre)
    /\ last.op = "duplicate" => OutsideParent(heap) = OutsideParent(last.pre)


\* a 2-element list whose second element is a list
IsTwoWithList(raw) == islist(raw) /\ Len(raw.v) = 2 /\ islist(raw.v[2])

\* a list of only strings
IsListOfStrings(raw) == islist(raw) /\ \A i \in 1..Len(raw.v) : isstr(raw.v[i])

\* does the header of a block contain the word: it is one of the header's
\* tokens, or it occurs in the header when the header is one token
HeaderHasWord(head, word) ==
    IF islist(head) THEN RStr(word) \in SeqRange(head.v)
    ELSE \E i \in 1..Len(head.v) : SubSeq(head.v, i, i + Len(word) - 1) = word

\* the kind the nginx hook table must build, "" when no rule applies
NginxKindAsSpecified(raw) ==
    IF IsTwoWithList(raw) /\ HeaderHasWord(raw.v[1], Str("server")) THEN "ServerBloc"
    ELSE IF IsListOfStrings(raw) /\ RStr(Str("include")) \in SeqRange(raw.v) THEN "Include"
    ELSE IF IsTwoWithList(raw) THEN "Bloc"
    ELSE IF IsListOfStrings(raw) THEN "Sentence"
    ELSE IF islist(raw) THEN "Statements"
    ELSE ""

\* the pairs of the table whose predicate matches the raw node
MatchingHooks(hooks, raw) == {i \in 1..Len(hooks) : HookMatches(hooks[i], raw)}

\* the kind of the first pair in registration order whose predicate matches
FirstMatch(hooks, raw) ==
    IF MatchingHooks(hooks, raw) = {} THEN ""
    ELSE hooks[CHOOSE i \in MatchingHooks(hooks, raw) :
                    \A j \in MatchingHooks(hooks, raw) : i <= j]

\* C11: the dispatcher tries the context's (predicate, kind) pairs in
\* registration order and builds the kind of the first predicate that matches;
\* under the nginx table a 2-element list with a list second element whose
\* header contains the word server gives a ServerBloc, a list of strings with
\* the word include an Include, a 2-element list whose second element is a list
\* a Bloc, a list of only strings a Sentence, any other list a Statements; a raw
\* node no predicate matches fails with DispatchError (MisconfigurationError in
\* the code).
C11_HookDispatch ==
    /\ last.op = "_choose_parser" =>
        /\ last.args.type_ = FirstMatch(last.args.hooks, last.args.list_)
        /\ last.args.hooks = NGINX_PARSING_HOOKS =>
                last.args.type_ = NginxKindAsSpecified(last.args.list_)
        /\ (last.err = "MisconfigurationError")
                <=> MatchingHooks(last.args.hooks, last.args.list_) = {}
        /\ last.err \in {"", "MisconfigurationError"}
    /\ (last.op = "parse_raw" /\ last.err = "") =>
            last.args.node.kind = NginxKindAsSpecified(last.args.list_)

\* a block whose header holds the words server and include, which the Bloc and
\* the Statements predicates match too, was built as a ServerBloc
C11_Witness ==
    /\ last.op = "parse_raw" /\ last.err = ""
    /\ last.args.node.kind = "ServerBloc"
    /\ RStr(Str("include")) \in SeqRange(last.args.list_.v[1].v)

\* C12: contains_exact(statement) returns true if and only if some
\* include-expanded Sentence has a word sequence equal to the statement word for
\* word, or is a comment-terminated match (its words are the statement followed
\* by #); in every other case, in particular when a sentence's words are only a
\* proper prefix of the statement or extend it with non-comment words, it
\* returns false.
C12_ExactContainment ==
    last.op = "contains_exact_directive" =>
        /\ last.err = ""
        /\ (last.args.ret = "True") <=> ExactlyPresent(RootDoc, last.args.statement, heap)

RECURSIVE KeepAsSpecified(_, _)
\* the children a duplicate filtered by only_directives must have: the
\* directives whose name is in the set, each with the marker right after it
KeepAsSpecified(data, names) ==
    IF data = <<>> THEN <<>>
    ELSE IF \E name \in names : IsNamed(Head(data), name)
    THEN (IF Len(data) >= 2 /\ IsMarker(data[2])
          THEN <<data[1], data[2]>> \o KeepAsSpecified(SubSeq(data, 3, Len(data)), names)
          ELSE <<data[1]>> \o KeepAsSpecified(Tail(data), names))
    ELSE KeepAsSpecified(Tail(data), names)

\* the duplicate the last call appended to the parent of its target
TheCopy == BlocAt(heap, DupTarget(last.t, last.pre))

\* C13: duplicating a server block with only_directives=D yields a new sibling
\* block in the parent Statements whose children are exactly the original's
\* directives whose name is in D, each machine-inserted one still followed by
\* its managed-comment marker (no listen parameter being stripped).
C13_FilteredDuplicate ==
    (last.op = "duplicate" /\ ~last.args.only.none /\ ~last.args.strip
        /\ last.err = "") =>
        /\ Len(ParentOf(heap, last.t).data) > Len(ParentOf(last.pre, last.t).data)
        /\ TheCopy.kind = "ServerBloc"
        /\ dump_all(TheCopy.contents.data, FALSE)
            = dump_all(KeepAsSpecified(BlocAt(last.pre, last.t).contents.data,
                                       last.args.only.names), FALSE)

\* the three listen parameters that only one server block may carry
SingletonParams == {Str("default_server"), Str("default"), Str("ipv6only=on")}

NotSingleton(word) == word \notin SingletonParams

RECURSIVE ListenWords(_)
\* the word sequences of the listen directives among these children, in order
ListenWords(data) ==
    IF data = <<>> THEN <<>>
    ELSE (IF IsNamed(Head(data), Str("listen")) THEN <<words(Head(data))>> ELSE <<>>)
         \o ListenWords(Tail(data))

\* the word sequences without the three parameters, every other word in place
StrippedAsSpecified(wss) == [i \in 1..Len(wss) |-> SelectSeq(wss[i], NotSingleton)]

\* C14: duplicating a server block with strip_singleton_listen_params=true
\* yields a copy in which every listen directive has lost exactly the tokens
\* default_server, default and ipv6only=on and keeps every other word in its
\* original order; with the flag false the copy's listen directives have the
\* words of the original's.  (Stated for blocks whose view can be computed and
\* whose listen directives the filter keeps.)
C14_ListenParamStripping ==
    (/\ last.op = "duplicate"
     /\ last.args.only.none \/ Str("listen") \in last.args.only.names
     /\ _update_vhost(BlocAt(last.pre, last.t).contents, last.pre).err = "") =>
        /\ last.err = ""
        /\ ListenWords(TheCopy.contents.data)
            = IF last.args.strip
              THEN StrippedAsSpecified(ListenWords(BlocAt(last.pre, last.t).contents.data))
              ELSE ListenWords(BlocAt(last.pre, last.t).contents.data)

RECURSIVE RawIncludes(_)
\* the patterns of the include statements of a raw tree, block bodies included
RawIncludes(raw) ==
    IF isstr(raw) THEN {}
    ELSE IF IsListOfStrings(raw)
    THEN (IF RStr(Str("include")) \in SeqRange(raw.v) /\ Len(words_of(Unraw(raw.v))) >= 2
          THEN {words_of(Unraw(raw.v))[2]} ELSE {})
    ELSE UNION {RawIncludes(raw.v[i]) : i \in 1..Len(raw.v)}

\* the files the text of f includes; a file the tokenizer fails on includes none
IncludedBy(f) ==
    IF disk[f].st # "ok" THEN {}
    ELSE {g \in FileSet : /\ disk[g].st # "absent"
                          /\ \E pattern \in RawIncludes(disk[f].raw) : fnmatch(g, pattern)}

RECURSIVE ReachIn(_, _)
\* the files reached from these files in at most n steps of inclusion
ReachIn(fs, n) ==
    IF n = 0 THEN fs ELSE ReachIn(fs \cup UNION {IncludedBy(f) : f \in fs}, n - 1)

\* the files loading the root file has to load
Reached == ReachIn({Root}, Cardinality(FileSet))

\* does some reached file include itself, directly or through other files
Cyclic == \E f \in Reached : f \in ReachIn(IncludedBy(f), Cardinality(FileSet))

\* the number of statements of a raw file, its trailing whitespace left out
RawLen(raw) == IF HasTrailing(raw.v) THEN Len(raw.v) - 1 ELSE Len(raw.v)

\* C15: when the tokenizer fails on a file's text, loading that file does not
\* fail: it yields an empty Statements, registered in the shared cache under the
\* file's name, and the parse of the including document goes on; when reading
\* the file fails (IOError) the failure propagates to the caller and no cache
\* entry is created for the file.
C15_LoadFailurePolicy ==
    last.op = "load" =>
        /\ \A f \in FileSet : disk[f].st = "IOError" => parsed_files[f] = 0
        /\ (~Cyclic /\ \E f \in Reached : disk[f].st = "IOError") => last.err = "IOError"
        /\ (~Cyclic /\ \A f \in Reached : disk[f].st # "IOError") =>
            /\ last.err = ""
            /\ \A f \in Reached :
                /\ parsed_files[f] # 0
                /\ disk[f].st = "ParseException" =>
                        heap[parsed_files[f]] = StatementsNode(<<>>, <<>>)
                /\ disk[f].st = "ok" =>
                        Len(heap[parsed_files[f]].data) = RawLen(disk[f].raw)

\* the root file includes, before a directive of its own, a file the tokenizer
\* fails on: the load succeeded and the directive was parsed
C15_Witness ==
    /\ last.op = "load" /\ last.err = ""
    /\ disk[FileA].st = "ParseException" /\ FileA \in IncludedBy(Root)
    /\ parsed_files[FileA] # 0
    /\ Len(RootDoc.data) = 2 /\ IsInclude(RootDoc.data[1]) /\ ~IsInclude(RootDoc.data[2])

RECURSIVE Flatten(_)
\* the concatenation of a sequence of sequences
Flatten(seqs) == IF seqs = <<>> THEN <<>> ELSE Head(seqs) \o Flatten(Tail(seqs))

RECURSIVE ExpandedAsSpecified(_, _)
\* document order with includes inlined depth first: each child in turn, an
\* Include child after the expanded children of the documents it resolves to
ExpandedAsSpecified(statements, h) ==
    Flatten([i \in 1..Len(statements.data) |->
        IF IsInclude(statements.data[i])
        THEN Flatten([k \in 1..Len(statements.data[i].parsed) |->
                        ExpandedAsSpecified(h[statements.data[i].parsed[k].id], h)])
             \o <<statements.data[i]>>
        ELSE <<statements.data[i]>>])

\* C16: each call of iterate_expanded yields a finite sequence that visits the
\* direct children in document order and, for each Include child, yields the
\* recursively expanded children of every document the Include resolves to
\* immediately before the Include node itself; no direct child is skipped and a
\* child that is no Include is yielded once.
C16_ExpandedIterationOrder ==
    last.op = "iterate_expanded" =>
        /\ last.err = ""
        /\ last.args.ret = ExpandedAsSpecified(RootDoc, heap)
        /\ heap = last.pre

\* the root document has a directive and then an include of conf.d/*, which
\* resolves to two documents, the second of which includes the first
C16_Witness ==
    /\ last.op = "iterate_expanded"
    /\ Len(RootDoc.data) = 2
    /\ ~IsInclude(RootDoc.data[1])
    /\ IsInclude(RootDoc.data[2]) /\ Len(RootDoc.data[2].parsed) = 2
    /\ \E e \in SeqRange(iterate_expanded(heap[RootDoc.data[2].parsed[2].id], heap)) :
            IsInclude(e)
    /\ Len(last.args.ret) >= 8

\* how often a value occurs in a sequence
CountIn(seq, v) == Cardinality({i \in 1..Len(seq) : seq[i] = v})

\* do two sequences hold the same values the same number of times
SameBag(s1, s2) ==
    \A v \in SeqRange(s1) \cup SeqRange(s2) : CountIn(s1, v) = CountIn(s2, v)

RECURSIVE DeepAsSpecified(_, _)
\* the direct and include-expanded children of a Statements and, at every
\* nesting depth, those of the contents of every Bloc among them
DeepAsSpecified(statements, h) ==
    ExpandedAsSpecified(statements, h)
    \o Flatten([i \in 1..Len(ExpandedAsSpecified(statements, h)) |->
            IF IsBloc(ExpandedAsSpecified(statements, h)[i])
            THEN DeepAsSpecified(ExpandedAsSpecified(statements, h)[i].contents, h)
            ELSE <<>>])

\* the Sentences of a sequence of nodes that are named name
NamedIn(nodes, name) ==
    SelectSeq(nodes, LAMBDA e : IsSentence(e) /\ words(e) # <<>> /\ words(e)[1] = name)

\* C17: find_directives(name) returns exactly the Sentences named name among
\* the direct and include-expanded children of the Statements, never a directive
\* inside a nested Bloc body; find_recursive returns in addition the matches
\* inside the contents of every Bloc reachable from those children, at every
\* nesting depth.
C17_QueryDepth ==
    /\ last.op = "get_directives" =>
        /\ last.err = ""
        /\ last.args.ret = NamedIn(ExpandedAsSpecified(RootDoc, heap), last.args.name)
    /\ last.op = "get_thing_recursive" =>
        /\ last.err = ""
        /\ SameBag(last.args.ret, NamedIn(DeepAsSpecified(RootDoc, heap), last.args.name))

\* the root document holds a block with a directive a and a nested block with
\* another, and get_directives('a') returned none of them while
\* get_thing_recursive returned both
C17_Witness ==
    /\ last.op = "get_thing_recursive" /\ last.args.name = Str("a")
    /\ Len(RootDoc.data) = 1 /\ IsBloc(RootDoc.data[1])
    /\ \E i \in 1..Len(RootDoc.data[1].contents.data) :
            IsBloc(RootDoc.data[1].contents.data[i])
    /\ get_directives(RootDoc, Str("a"), heap).found = <<>>
    /\ Len(last.args.ret) = 2

\* does the text of f include f, directly or through other files
OnCycle(f) == f \in ReachIn(IncludedBy(f), Cardinality(FileSet))

\* C18: the cache entry of a file is written only after the file has finished
\* parsing, so loading a file that directly or transitively includes itself
\* enters the parsing of that file again before its cache entry exists and does
\* not terminate (the load ends in the runtime's RecursionError, no file of the
\* cycle registered); for an acyclic include graph loading terminates and each
\* distinct file is loaded and parsed exactly once.
C18_IncludeCycles ==
    last.op = "load" =>
        /\ (Cyclic /\ \A f \in Reached : disk[f].st # "IOError") =>
            /\ last.err = "RecursionError"
            /\ \A f \in Reached : OnCycle(f) => parsed_files[f] = 0
        /\ ~Cyclic =>
            /\ last.err # "RecursionError"
            /\ last.err = "" =>
                /\ \A f \in Reached : parsed_files[f] \in 1..Len(heap)
                /\ \A f, g \in Reached : f # g => parsed_files[f] # parsed_files[g]
                /\ Len(heap) = Cardinality(Reached)

\* the root file includes a file that includes itself through another file and
\* not directly: the load did not terminate and neither file is registered
C18_Witness ==
    /\ last.op = "load" /\ last.err = "RecursionError"
    /\ \E f \in IncludedBy(Root), g \in FileSet :
        /\ f # g /\ f # Root /\ g # Root
        /\ g \in IncludedBy(f) /\ f \in IncludedBy(g) /\ f \notin IncludedBy(f)
        /\ parsed_files[f] = 0 /\ parsed_files[g] = 0

\* two files include the same third file, no file includes itself: the load
\* succeeded with one document for each of the three files
C18_WitnessAcyclic ==
    /\ last.op = "load" /\ last.err = "" /\ ~Cyclic
    /\ \E f \in FileSet : f # Root /\ f \in IncludedBy(Root)
            /\ \E g \in IncludedBy(Root) \cap IncludedBy(f) : g # f
    /\ Len(heap) = 3

\* the indices of the direct children named name
NamedAt(data, name) == {i \in 1..Len(data) : IsNamed(data[i], name)}

\* the node that follows the only direct child named name, when there is one
\* such child and it is not the last
Follower(data, name) == data[(CHOOSE i \in NamedAt(data, name) : TRUE) + 1]

HasFollower(data, name) ==
    /\ Cardinality(NamedAt(data, name)) = 1
    /\ \A i \in NamedAt(data, name) : i < Len(data)

\* C19: a node is treated as the managed-comment marker, by replace, which then
\* inserts no new marker, and by remove, which then deletes it, if and only if
\* it is a Sentence whose words are exactly '#' and ' managed by Certbot'; a
\* sentence with more words, or with the two tokens elsewhere, is not.
C19_MarkerRecognition ==
    /\ (/\ last.op = "remove_directives" /\ last.err = ""
        /\ HasFollower(BlocAt(last.pre, last.t).contents.data, last.args.directive)) =>
            (Len(BlocAt(heap, last.t).contents.data)
                    = Len(BlocAt(last.pre, last.t).contents.data) - 2
             <=> IsMarker(Follower(BlocAt(last.pre, last.t).contents.data,
                                   last.args.directive)))
    /\ \A k \in 1..Len(last.calls) :
        (/\ last.calls[k].fn = "replace_statement" /\ last.calls[k].err = ""
         /\ HasFollower(last.calls[k].pre.data, StmtWords(last.calls[k].arg)[1])) =>
            (Len(last.calls[k].post.data) = Len(last.calls[k].pre.data)
             <=> IsMarker(Follower(last.calls[k].pre.data,
                                   StmtWords(last.calls[k].arg)[1])))

\* C20: whenever add_directives on a statement list fails with the conflict
\* error, the server block's children and its virtual-host view are the same as
\* before the call; no statement of the list that precedes the conflicting one
\* remains inserted.
C20_AtomicAddFailure ==
    (last.op = "add_directives" /\ last.err = "MisconfigurationError") =>
        /\ BlocAt(heap, last.t).contents.data = BlocAt(last.pre, last.t).contents.data
        /\ BlocAt(heap, last.t).vhost = BlocAt(last.pre, last.t).vhost

\* the documents the Include directives below a Statements resolve to
DocsOf(statements) ==
    UNION {{inc.parsed[i].id : i \in 1..Len(inc.parsed)} : inc \in IncludesIn(statements)}

RECURSIVE DocsWithin(_, _, _)
\* these documents and those reached from them in at most n steps of inclusion
DocsWithin(ids, h, n) ==
    IF n = 0 THEN ids
    ELSE DocsWithin(ids \cup UNION {DocsOf(h[id]) : id \in ids}, h, n - 1)

\* the documents reachable through the Include directives of a block
DocsReachable(bloc, h) == DocsWithin(DocsOf(bloc.contents), h, Len(h))

\* C21: for every server block and every choice of only_directives and
\* strip_singleton_listen_params, duplicate changes the parent Statements only
\* by appending the new block and its marker after the existing children; the
\* original block's children, the contents of every document reachable through
\* its Include directives, and the original's view are the same after the call
\* as before.
C21_DuplicateFrame ==
    last.op = "duplicate" =>
        /\ SubSeq(ParentOf(heap, last.t).data, 1, Len(ParentOf(last.pre, last.t).data))
                = ParentOf(last.pre, last.t).data
        /\ last.err = "" =>
            /\ Len(ParentOf(heap, last.t).data) = Len(ParentOf(last.pre, last.t).data) + 2
            /\ IsBloc(TheCopy)
            /\ IsMarker(ParentOf(heap, last.t).data[Len(ParentOf(last.pre, last.t).data) + 2])
        /\ BlocAt(heap, last.t).contents = BlocAt(last.pre, last.t).contents
        /\ BlocAt(heap, last.t).vhost = BlocAt(last.pre, last.t).vhost
        /\ \A id \in DocsReachable(BlocAt(last.pre, last.t), last.pre) :
                heap[id] = last.pre[id]

\* a directive the calls inserted or overwrote: a Sentence, not a marker, with
\* an argument value only the calls use
MachineInserted(node) ==
    /\ IsSentence(node) /\ ~IsMarker(node)
    /\ \E i \in 1..Len(words(node)) : words(node)[i] \in MTokens

\* is every such directive among these children immediately followed by a
\* marker, and does every marker immediately follow such a directive
MarkersPaired(data) ==
    /\ \A i \in 1..Len(data) :
        MachineInserted(data[i]) => (i < Len(data) /\ IsMarker(data[i + 1]))
    /\ \A i \in 1..Len(data) :
        IsMarker(data[i]) => (i > 1 /\ MachineInserted(data[i - 1]))

\* C22: starting from a server block that contains no managed-comment marker,
\* after any sequence of add_directives, replace_directives and
\* remove_directives calls with non-comment statements, every directive
\* inserted or overwritten by these calls that is still present is immediately
\* followed by a marker, and every marker present immediately follows such a
\* directive.
C22_MarkerPairingOverSequences ==
    phase = "ready" =>
        \A t \in Targets(heap) : MarkersPaired(BlocAt(heap, t).contents.data)
====
